---- MODULE Spec2Model ----
(***************************************************************************)
(* Model of the launch-sniping pipeline: websocket ingest with dedup and   *)
(* staleness gate (HeliusSocketClient.js), tag resolution and fingerprint  *)
(* matching (tagResolver.js), the cached mint validator, and the builder   *)
(* of the launchpad buy transaction (index.js, SolanaService).             *)
(*                                                                         *)
(* Reals of the source (weights, confidences, thresholds) are kept in      *)
(* hundredths: 0.94 is 94.  Times are milliseconds.                        *)
(***************************************************************************)
EXTENDS Integers, Sequences, FiniteSets, TLC

VARIABLES
  now,            \* Date.now(), ms
  chainSlot,      \* slot the RPC node would report to getSlot
  sessions,       \* one record per createWebSocket() call
  processedSigs,  \* per session: the closure's Map sig -> timestamp
  signalStats,    \* label -> {matches, failures, unresolved, received}
  cachedSlot,     \* {value, lastUpdated}
  tasks,          \* one record per ws.on('message') invocation
  exited,         \* "running", or how the process ended
  faults,         \* refusals and errors the environment has answered so far
  swap,           \* one executePumpSwap run
  checkedMints,   \* validateMintCandidate's Map address -> boolean
  vcalls,         \* validateMintCandidate calls in progress
  rpcCount,       \* getAccountInfo requests issued, per address
  fp              \* one evaluation of a function of the resolver: input and result

vars == <<now, chainSlot, sessions, processedSigs, signalStats,
          cachedSlot, tasks, exited, faults, swap, checkedMints, vcalls, rpcCount, fp>>

pipeVars == <<now, chainSlot, sessions, processedSigs, signalStats,
              cachedSlot, tasks, exited, faults>>
valVars == <<checkedMints, vcalls, rpcCount>>

(***************************************************************************)
(* Bounds of the model.                                                    *)
(***************************************************************************)
MaxTicks == 1        \* clock steps explored
MaxSessions == 2     \* createWebSocket() calls explored
MaxTasks == 2        \* inbound messages explored
MaxSlotSteps == 1    \* advances of the chain explored
MaxFaults == 1       \* refusals and errors answered by limiter, RPC and executor
MaxCalls == 3        \* validateMintCandidate calls explored
MaxLogLines == 6     \* lines of one matchFingerprint input
MaxScoreCalls == 2   \* calculateSignalScore calls on one input

Null == "null"              \* JavaScript null / undefined, as a string
NoMatch == [tag |-> Null]   \* null where a record is expected

(***************************************************************************)
(* Strings: String.prototype.includes and toLowerCase.                     *)
(***************************************************************************)
Includes(text, needle) ==
  \E t \in {text}, n \in {needle} :
     \E i \in 1..(Len(t) - Len(n) + 1) : SubSeq(t, i, i + Len(n) - 1) = n

LowerOf ==
  [c \in {"A","B","C","D","E","F","G","H","I","J","K","L","M","N","O","P",
          "Q","R","S","T","U","V","W","X","Y","Z"} |->
     CASE c = "A" -> "a" [] c = "B" -> "b" [] c = "C" -> "c" [] c = "D" -> "d"
       [] c = "E" -> "e" [] c = "F" -> "f" [] c = "G" -> "g" [] c = "H" -> "h"
       [] c = "I" -> "i" [] c = "J" -> "j" [] c = "K" -> "k" [] c = "L" -> "l"
       [] c = "M" -> "m" [] c = "N" -> "n" [] c = "O" -> "o" [] c = "P" -> "p"
       [] c = "Q" -> "q" [] c = "R" -> "r" [] c = "S" -> "s" [] c = "T" -> "t"
       [] c = "U" -> "u" [] c = "V" -> "v" [] c = "W" -> "w" [] c = "X" -> "x"
       [] c = "Y" -> "y" [] c = "Z" -> "z"]

\* String.prototype.toLowerCase, by halves
RECURSIVE ToLowerCase(_)
ToLowerCase(s) ==
  IF Len(s) = 0 THEN ""
  ELSE IF Len(s) = 1 THEN (IF s \in DOMAIN LowerOf THEN LowerOf[s] ELSE s)
  ELSE LET h == Len(s) \div 2
       IN  ToLowerCase(SubSeq(s, 1, h)) \o ToLowerCase(SubSeq(s, h + 1, Len(s)))

\* Array.prototype.join
RECURSIVE Join(_, _)
Join(lines, sep) ==
  IF Len(lines) = 0 THEN ""
  ELSE IF Len(lines) = 1 THEN lines[1]
  ELSE lines[1] \o sep \o Join(Tail(lines), sep)

\* Array.prototype.map(i => i?.toLowerCase())
MapLower(instructions) ==
  [k \in 1..Len(instructions) |->
     IF instructions[k] = Null THEN Null ELSE ToLowerCase(instructions[k])]

SeqIncludes(seq, x) == \E k \in 1..Len(seq) : seq[k] = x

\* Math.ceil(n / 2)
CeilHalf(n) == (n + 1) \div 2

(***************************************************************************)
(* tagResolver.js: FINGERPRINTS, in Object.entries order.                  *)
(***************************************************************************)
FINGERPRINTS == <<
  [tag |-> "launch_mint_metadata",
   instructions |-> <<"MintTo", "CreateMetadataAccountV3", "Create",
                      "initializeMetadataPointer", "initializeMint">>,
   programs |-> <<"splToken", "tokenMetadata",
                  "TokenzQdBNbLqP5VEhdkAS6EPFLC1PHnBqCXEpPxuEb">>,
   confidence |-> 96, minScore |-> 100, logic |-> "AND"],
  [tag |-> "pumpfun_create",
   instructions |-> <<"Create", "MintTo", "SetAuthority", "CreatePool",
                      "InitializeImmutableOwner">>,
   programs |-> <<"6EF8rrecthR5Dkzon8Nwu78hRvfCKubJ14M5uBEwF6P",
                  "pAMMBay6oceH9fJKBRHGP5D4bD4sWpmSwMn52FMfXEA">>,
   confidence |-> 94, minScore |-> 80, logic |-> "FUZZY"],
  [tag |-> "raydium_initPool",
   instructions |-> <<"Initialize", "MintTo", "BuyExactIn",
                      "InitializeAccount3">>,
   programs |-> <<"LanMV9sAd7wArD4vJFi2qDdfnVhFxYSUg6eADduJ3uj",
                  "TokenzQdBNbLqP5VEhdkAS6EPFLC1PHnBqCXEpPxuEb">>,
   confidence |-> 92, minScore |-> 80, logic |-> "AND"],
  [tag |-> "meteora_initPool",
   instructions |-> <<"InitializeMint2", "InitializeAccount3", "SetAuthority",
                      "InitializeVirtualPoolWithSplToken">>,
   programs |-> <<"dbcij3LWUppWqq96dh6gJWwBifmcGfLSB5D4DuSMaqN">>,
   confidence |-> 100, minScore |-> 150, logic |-> "FUZZY"] >>

\* matchCount of one fingerprint (tagResolver.js:57-60)
MatchCount(fpr, logText, normalized) ==
  Cardinality({k \in 1..Len(fpr.instructions) :
     LET instr == ToLowerCase(fpr.instructions[k])
     IN  SeqIncludes(normalized, instr) \/ Includes(logText, instr)})

\* programMatched of one fingerprint (tagResolver.js:61-65)
ProgramMatched(fpr, logText, programId) ==
  \E k \in 1..Len(fpr.programs) :
     \/ ToLowerCase(fpr.programs[k]) = ToLowerCase(programId)
     \/ Includes(logText, ToLowerCase(fpr.programs[k]))

\* a loop body without the line "if (!programMatched) continue"
FingerprintPassesAnyProgram(fpr, logText, normalized, programId) ==
  LET matchCount == MatchCount(fpr, logText, normalized)
      programMatched == ProgramMatched(fpr, logText, programId)
      score == 100 * (matchCount + (IF programMatched THEN 1 ELSE 0))
  IN  /\ ~(score < fpr.minScore)
      /\ \/ fpr.logic = "AND" /\ matchCount = Len(fpr.instructions)
                              /\ programMatched
         \/ fpr.logic = "OR" /\ (matchCount > 0 \/ programMatched)
         \/ fpr.logic = "FUZZY"
              /\ matchCount >= CeilHalf(Len(fpr.instructions))

\* a loop body that returns on the score and the program alone, without the
\* test of the logic
FingerprintPassesScoreOnly(fpr, logText, normalized, programId) ==
  LET matchCount == MatchCount(fpr, logText, normalized)
      programMatched == ProgramMatched(fpr, logText, programId)
      score == 100 * (matchCount + (IF programMatched THEN 1 ELSE 0))
  IN  /\ ~(score < fpr.minScore)
      /\ programMatched

\* the body of the loop: does this fingerprint return? (tagResolver.js:66-76)
FingerprintPasses(fpr, logText, normalized, programId) ==
  LET matchCount == MatchCount(fpr, logText, normalized)
      programMatched == ProgramMatched(fpr, logText, programId)
      score == 100 * (matchCount + (IF programMatched THEN 1 ELSE 0))
  IN  /\ ~(score < fpr.minScore)
      /\ programMatched
      /\ \/ fpr.logic = "AND" /\ matchCount = Len(fpr.instructions)
                              /\ programMatched
         \/ fpr.logic = "OR" /\ (matchCount > 0 \/ programMatched)
         \/ fpr.logic = "FUZZY"
              /\ matchCount >= CeilHalf(Len(fpr.instructions))

\* a loop that keeps the last passing entry instead of returning the first
RECURSIVE ScanFingerprintsLast(_, _, _, _)
ScanFingerprintsLast(k, logText, normalized, programId) ==
  IF k > Len(FINGERPRINTS) THEN NoMatch
  ELSE LET later == ScanFingerprintsLast(k + 1, logText, normalized, programId)
       IN  IF later # NoMatch THEN later
           ELSE IF FingerprintPasses(FINGERPRINTS[k], logText, normalized,
                                     programId)
                THEN [tag |-> FINGERPRINTS[k].tag,
                      confidence |-> FINGERPRINTS[k].confidence,
                      score |-> MatchCount(FINGERPRINTS[k], logText,
                                           normalized) + 1]
                ELSE NoMatch

\* the for loop over Object.entries(FINGERPRINTS), from entry k on
RECURSIVE ScanFingerprints(_, _, _, _)
ScanFingerprints(k, logText, normalized, programId) ==
  IF k > Len(FINGERPRINTS) THEN NoMatch
  ELSE IF FingerprintPasses(FINGERPRINTS[k], logText, normalized, programId)
       THEN [tag |-> FINGERPRINTS[k].tag,
             confidence |-> FINGERPRINTS[k].confidence,
             score |-> MatchCount(FINGERPRINTS[k], logText, normalized) + 1]
       ELSE ScanFingerprints(k + 1, logText, normalized, programId)

matchFingerprint(logs, instructions, programId) ==
  LET logText == ToLowerCase(Join(logs, " "))
      normalized == MapLower(instructions)
  IN  ScanFingerprints(1, logText, normalized, programId)

(***************************************************************************)
(* Inputs of matchFingerprint: log lines as the feed delivers them.        *)
(***************************************************************************)
LinePool == <<
  "Program TokenzQdBNbLqP5VEhdkAS6EPFLC1PHnBqCXEpPxuEb invoke [1]",
  "Program 6EF8rrecthR5Dkzon8Nwu78hRvfCKubJ14M5uBEwF6P invoke [1]",
  "Program log: Instruction: MintTo",
  "Program log: Instruction: SetAuthority",
  "Program log: Instruction: CreateMetadataAccountV3",
  "Program log: Instruction: InitializeMetadataPointer",
  "Program log: Instruction: InitializeMint2",
  "Program log: Instruction: BuyExactIn",
  "Program log: Instruction: InitializeAccount3" >>

\* the lines of LinePool whose index is in S, in pool order
RECURSIVE PickLines(_, _)
PickLines(S, k) ==
  IF k > Len(LinePool) THEN << >>
  ELSE (IF k \in S THEN <<LinePool[k]>> ELSE << >>) \o PickLines(S, k + 1)

LogInputs ==
  {PickLines(S, 1) : S \in {T \in SUBSET (1..Len(LinePool)) :
                                Cardinality(T) <= MaxLogLines}}

InstructionInputs == {<<Null>>, <<"MintTo">>}
ProgramIdInputs == {"unknown", "dbcij3LWUppWqq96dh6gJWwBifmcGfLSB5D4DuSMaqN"}

FpIdle == [pc |-> "idle", logs |-> << >>, instructions |-> << >>,
           programId |-> "unknown", result |-> NoMatch]

\* the tags whose fingerprint passes on the input held in fp
PassingTags ==
  LET logText == ToLowerCase(Join(fp.logs, " "))
      normalized == MapLower(fp.instructions)
  IN  {FINGERPRINTS[k].tag : k \in {j \in 1..Len(FINGERPRINTS) :
          FingerprintPasses(FINGERPRINTS[j], logText, normalized,
                            fp.programId)}}

\* position of a tag in configuration order
TagIndex(tag) == CHOOSE k \in 1..Len(FINGERPRINTS) : FINGERPRINTS[k].tag = tag

(***************************************************************************)
(* 64-bit integers.  A BigInt is kept as sign and magnitude, the magnitude *)
(* as four base-65536 limbs, least significant first.                      *)
(***************************************************************************)
Limb == 65536

Big(neg, l0, l1, l2, l3) == [neg |-> neg, limbs |-> <<l0, l1, l2, l3>>]

\* BigInt(n) for a small non-negative n
BigOfNat(n) == Big(FALSE, n % Limb, (n \div Limb) % Limb, 0, 0)

IsZeroLimbs(l) == \A k \in 1..4 : l[k] = 0

\* l - 1 on limbs, l # 0
RECURSIVE DecLimbs(_, _)
DecLimbs(l, k) ==
  IF l[k] > 0 THEN [l EXCEPT ![k] = l[k] - 1]
  ELSE DecLimbs([l EXCEPT ![k] = Limb - 1], k + 1)

\* l + 1 on limbs, modulo 2^64
RECURSIVE IncLimbs(_, _)
IncLimbs(l, k) ==
  IF k > 4 THEN l
  ELSE IF l[k] < Limb - 1 THEN [l EXCEPT ![k] = l[k] + 1]
  ELSE IncLimbs([l EXCEPT ![k] = 0], k + 1)

NotLimbs(l) == [k \in 1..4 |-> Limb - 1 - l[k]]

\* -2^63 <= v < 2^63, the range check of writeBigInt64LE
InInt64Range(v) ==
  IF v.neg
  THEN \/ v.limbs[4] < 32768
       \/ v.limbs = <<0, 0, 0, 32768>>
  ELSE v.limbs[4] < 32768

\* a variant that writes the magnitude and drops the sign
TwosComplementUnsigned(v) == v.limbs

\* two's complement of v in 64 bits, as limbs
TwosComplement(v) ==
  IF v.neg /\ ~IsZeroLimbs(v.limbs) THEN NotLimbs(DecLimbs(v.limbs, 1))
  ELSE v.limbs

\* Buffer.writeBigInt64LE: the eight bytes, lowest first
writeBigInt64LE(v) ==
  LET l == TwosComplement(v)
  IN  <<l[1] % 256, l[1] \div 256, l[2] % 256, l[2] \div 256,
        l[3] % 256, l[3] \div 256, l[4] % 256, l[4] \div 256>>

\* Buffer.readBigInt64LE
readBigInt64LE(b) ==
  LET l == <<b[1] + 256 * b[2], b[3] + 256 * b[4],
             b[5] + 256 * b[6], b[7] + 256 * b[8]>>
  IN  IF l[4] >= 32768
      THEN [neg |-> TRUE, limbs |-> IncLimbs(NotLimbs(l), 1)]
      ELSE [neg |-> FALSE, limbs |-> l]

HexDigit ==
  [c \in {"0","1","2","3","4","5","6","7","8","9","a","b","c","d","e","f"} |->
     CASE c = "0" -> 0 [] c = "1" -> 1 [] c = "2" -> 2 [] c = "3" -> 3
       [] c = "4" -> 4 [] c = "5" -> 5 [] c = "6" -> 6 [] c = "7" -> 7
       [] c = "8" -> 8 [] c = "9" -> 9 [] c = "a" -> 10 [] c = "b" -> 11
       [] c = "c" -> 12 [] c = "d" -> 13 [] c = "e" -> 14 [] c = "f" -> 15]

\* Buffer.from(hex, 'hex')
BufferFromHex(hex) ==
  [k \in 1..(Len(hex) \div 2) |->
     16 * HexDigit[SubSeq(hex, 2 * k - 1, 2 * k - 1)]
        + HexDigit[SubSeq(hex, 2 * k, 2 * k)]]

HexChars == <<"0","1","2","3","4","5","6","7","8","9","a","b","c","d","e","f">>

\* Buffer.toString('hex')
RECURSIVE BufferToHex(_)
BufferToHex(b) ==
  IF Len(b) = 0 THEN ""
  ELSE HexChars[(b[1] \div 16) + 1] \o HexChars[(b[1] % 16) + 1]
         \o BufferToHex(Tail(b))

(***************************************************************************)
(* index.js, SolanaService: constants of the constructor.                  *)
(***************************************************************************)
PUMP_PROGRAM_ID == "6EF8rrecthR5Dkzon8Nwu78hRvfCKubJ14M5uBEwF6P"
GLOBAL_FEE_VAULT == "CebN5WGQ4jvEPvsVU4EoHEpgzq1VV7AbicfhtW4xC9iM"
CONFIG_AUTHORITY == "Ce6TQqeCH9p8KetsN6JsjHK7UTZk7nasjjnr7XxXp9F1"
BUY_DISCRIM_HEX == "66063d1201daebea"
SYSTEM_PROGRAM_ID == "11111111111111111111111111111111"
TOKEN_PROGRAM_ID == "TokenkegQfeZyiNwAJbNbGKPFXCWuBvf9Ss623VQ5DA"
SYSVAR_RENT == "SysvarRent11111111111111111111111111111111"
WSOL == "So11111111111111111111111111111111111111112"

Base58Alphabet ==
  {"1","2","3","4","5","6","7","8","9","A","B","C","D","E","F","G","H","J",
   "K","L","M","N","P","Q","R","S","T","U","V","W","X","Y","Z","a","b","c",
   "d","e","f","g","h","i","j","k","m","n","o","p","q","r","s","t","u","v",
   "w","x","y","z"}

\* new PublicKey(str) does not throw: str is base58 and decodes to 32 bytes
\* (a 32-byte value has 32 to 44 base58 digits)
IsPublicKeyString(str) ==
  /\ Len(str) >= 32 /\ Len(str) <= 44
  /\ \A i \in 1..Len(str) : SubSeq(str, i, i) \in Base58Alphabet

\* addresses: a key given by its base58 text, or a derived address
KeyOf(str) == [kind |-> "key", of |-> <<str>>]
\* PublicKey.findProgramAddress(seeds, programId)
findProgramAddress(seeds, programId) ==
  [kind |-> "pda", of |-> seeds \o <<programId>>]
\* getAssociatedTokenAddress(mint, owner, allowOwnerOffCurve)
getAssociatedTokenAddress(mint, owner) ==
  [kind |-> "ata", of |-> <<mint, owner>>]

\* pk.toBytes().length === 32: a key object is 32 bytes by construction
Is32Bytes(pk) ==
  \/ pk.kind = "key" /\ IsPublicKeyString(pk.of[1])
  \/ pk.kind \in {"pda", "ata", "keypair"}

\* Math.floor(Number(amountIn) * 1e9) in IEEE doubles, for the amounts used
\* as inputs (0.000000015 * 1e9 is 14.999999999999998)
LamportsOf ==
  [a \in {"0", "0.000000001", "0.000000015", "0.01", "2.147483648",
          "4611686018.427387904", "10000000000"} |->
     CASE a = "0" -> BigOfNat(0)
       [] a = "0.000000001" -> BigOfNat(1)
       [] a = "0.000000015" -> BigOfNat(14)
       [] a = "0.01" -> BigOfNat(10000000)
       [] a = "2.147483648" -> Big(FALSE, 0, 32768, 0, 0)
       [] a = "4611686018.427387904" -> Big(FALSE, 0, 0, 0, 16384)
       [] a = "10000000000" -> Big(FALSE, 0, 35304, 8964, 35527)]

\* the instruction data of the buy (index.js:61-66); Null on RangeError
BuyData(lamportsIn, maxSol) ==
  IF InInt64Range(lamportsIn) /\ InInt64Range(maxSol)
  THEN BufferFromHex(BUY_DISCRIM_HEX) \o writeBigInt64LE(lamportsIn)
         \o writeBigInt64LE(maxSol)
  ELSE << >>

MinusOne == Big(TRUE, 1, 0, 0, 0)

\* an account list with the mint ahead of the fee vault
BuyKeysMintFirst(globalPda, mintPubkey, bondingCurvePda, bondingCurveATA, userATA, payer) == <<
  [pubkey |-> globalPda, isSigner |-> FALSE, isWritable |-> FALSE],
  [pubkey |-> mintPubkey, isSigner |-> FALSE, isWritable |-> FALSE],
  [pubkey |-> KeyOf(GLOBAL_FEE_VAULT), isSigner |-> FALSE, isWritable |-> TRUE],
  [pubkey |-> bondingCurvePda, isSigner |-> FALSE, isWritable |-> TRUE],
  [pubkey |-> bondingCurveATA, isSigner |-> FALSE, isWritable |-> TRUE],
  [pubkey |-> userATA, isSigner |-> FALSE, isWritable |-> TRUE],
  [pubkey |-> payer, isSigner |-> TRUE, isWritable |-> TRUE],
  [pubkey |-> KeyOf(SYSTEM_PROGRAM_ID), isSigner |-> FALSE, isWritable |-> FALSE],
  [pubkey |-> KeyOf(TOKEN_PROGRAM_ID), isSigner |-> FALSE, isWritable |-> FALSE],
  [pubkey |-> KeyOf(SYSVAR_RENT), isSigner |-> FALSE, isWritable |-> FALSE],
  [pubkey |-> KeyOf(CONFIG_AUTHORITY), isSigner |-> FALSE, isWritable |-> FALSE],
  [pubkey |-> KeyOf(PUMP_PROGRAM_ID), isSigner |-> FALSE, isWritable |-> FALSE] >>

\* the account list of the buy (index.js:98-111)
BuyKeys(globalPda, mintPubkey, bondingCurvePda, bondingCurveATA, userATA, payer) == <<
  [pubkey |-> globalPda, isSigner |-> FALSE, isWritable |-> FALSE],
  [pubkey |-> KeyOf(GLOBAL_FEE_VAULT), isSigner |-> FALSE, isWritable |-> TRUE],
  [pubkey |-> mintPubkey, isSigner |-> FALSE, isWritable |-> FALSE],
  [pubkey |-> bondingCurvePda, isSigner |-> FALSE, isWritable |-> TRUE],
  [pubkey |-> bondingCurveATA, isSigner |-> FALSE, isWritable |-> TRUE],
  [pubkey |-> userATA, isSigner |-> FALSE, isWritable |-> TRUE],
  [pubkey |-> payer, isSigner |-> TRUE, isWritable |-> TRUE],
  [pubkey |-> KeyOf(SYSTEM_PROGRAM_ID), isSigner |-> FALSE, isWritable |-> FALSE],
  [pubkey |-> KeyOf(TOKEN_PROGRAM_ID), isSigner |-> FALSE, isWritable |-> FALSE],
  [pubkey |-> KeyOf(SYSVAR_RENT), isSigner |-> FALSE, isWritable |-> FALSE],
  [pubkey |-> KeyOf(CONFIG_AUTHORITY), isSigner |-> FALSE, isWritable |-> FALSE],
  [pubkey |-> KeyOf(PUMP_PROGRAM_ID), isSigner |-> FALSE, isWritable |-> FALSE] >>

ASSOCIATED_TOKEN_PROGRAM_ID == "ATokenGPvbdGVxr1b2hvZbsiqW5xWH25efTNsLJA8knL"

\* createAssociatedTokenAccountInstruction(payer, ata, owner, mint)
createAssociatedTokenAccountInstruction(payer, ata, owner, mint) ==
  [kind |-> "createATA", programId |-> ASSOCIATED_TOKEN_PROGRAM_ID,
   keys |-> <<
     [pubkey |-> payer, isSigner |-> TRUE, isWritable |-> TRUE],
     [pubkey |-> ata, isSigner |-> FALSE, isWritable |-> TRUE],
     [pubkey |-> owner, isSigner |-> FALSE, isWritable |-> FALSE],
     [pubkey |-> mint, isSigner |-> FALSE, isWritable |-> FALSE],
     [pubkey |-> KeyOf(SYSTEM_PROGRAM_ID), isSigner |-> FALSE,
      isWritable |-> FALSE],
     [pubkey |-> KeyOf(TOKEN_PROGRAM_ID), isSigner |-> FALSE,
      isWritable |-> FALSE] >>,
   data |-> << >>]

NoIx == [kind |-> Null]

\* an _getOrCreateATAIx that always returns the create instruction
GetOrCreateATAIxAlways(info, payer, ata, owner, mint) ==
  createAssociatedTokenAccountInstruction(payer, ata, owner, mint)

\* _getOrCreateATAIx (index.js:36-44), given what getAccountInfo(ata) returned
GetOrCreateATAIx(info, payer, ata, owner, mint) ==
  IF info = "absent"
  THEN createAssociatedTokenAccountInstruction(payer, ata, owner, mint)
  ELSE NoIx

\* the transaction's instruction list (index.js:116-118)
TxInstructions(createUserAtaIx, buyIx) ==
  (IF createUserAtaIx # NoIx THEN <<createUserAtaIx>> ELSE << >>) \o <<buyIx>>

\* a handling of the simulation that aborts when it fails
AfterSimulationAbort(sim) == IF sim = "ok" THEN "send" ELSE "done"

\* what follows the simulation: its result or error is logged, the catch
\* swallows a throw, and the send comes next (index.js:120-129)
AfterSimulation(sim) == "send"

\* the secret keys offered as decryptedKey: text and decoded length
SecretKeys ==
  {[text |-> "4NJA1qCuWLune6U3uyaCPzTdtA1H8cEuUwxinjTcK56ubDPMgzdBqSmJEimwbhnpp69nEsqFgDe4BkprdmJ7vfFk",
    bytes |-> 64],
   [text |-> "3yZe7d", bytes |-> 4]}

\* Keypair.fromSecretKey(secretKey).publicKey
PayerOf(key) == [kind |-> "keypair", of |-> <<key.text>>]

TokenOutInputs ==
  {Null, "SOL", "6KvYCcmz1VjFxc6pmmqEWTdezssGT7XHk6CnyCNQpump",
   "GuvGCUW8ay7Aa1Au8TTR8rZGajZcq8ZE6spdCa3Mmoon", "not-a-mint"}

Variants == {"standalone", "fullyLogged", "logging"}

\* the keys validatePK is applied to (index.js:89-94); none in the other variants
ValidatedKeys(variant) ==
  IF variant = "standalone"
  THEN {"mint", "globalPda", "bondingCurvePda", "bondingCurveATA", "userATA",
        "payer"}
  ELSE {}

SwapFields ==
  [pc |-> "idle", variant |-> Null, decryptedKey |-> Null, tokenOut |-> Null,
   amountIn |-> "0", lamportsIn |-> BigOfNat(0), data |-> << >>,
   info |-> Null, createUserAtaIx |-> NoIx, validated |-> {},
   keys |-> << >>, blockhash |-> FALSE, tx |-> << >>, sim |-> Null,
   sendCalls |-> 0, sendRes |-> Null, sent |-> << >>, result |-> Null,
   error |-> ""]

SwapFail(msg) ==
  swap' = [swap EXCEPT !.pc = "done", !.result = "error",
             !.error = "Swap buy failed: " \o msg]

\* the derived addresses of a run
SwapMint == KeyOf(IF ToLowerCase(swap.tokenOut) = "sol" THEN WSOL ELSE swap.tokenOut)
SwapPayer == PayerOf(swap.decryptedKey)
SwapGlobalPda == findProgramAddress(<<"global">>, PUMP_PROGRAM_ID)
SwapBondingCurvePda ==
  findProgramAddress(<<"bonding-curve", SwapMint.of[1]>>, PUMP_PROGRAM_ID)
SwapBondingCurveATA == getAssociatedTokenAddress(SwapMint, SwapBondingCurvePda)
SwapUserATA == getAssociatedTokenAddress(SwapMint, SwapPayer)

\* executePumpSwap up to its first await (index.js:46-58, part_000:44-79)
SwapBegin ==
  /\ swap.pc = "start"
  /\ IF swap.tokenOut = Null \/ swap.amountIn = "0"
     THEN swap' = [swap EXCEPT !.pc = "done", !.result = "error",
                     !.error = "tokenOut and amountIn are required"]
     ELSE IF swap.variant = "logging" /\ swap.decryptedKey.bytes # 64
     THEN SwapFail("Secret key length invalid")
     ELSE IF swap.decryptedKey.bytes # 64
     THEN SwapFail("bad secret key size")
     ELSE IF ~IsPublicKeyString(SwapMint.of[1])
     THEN SwapFail("Invalid public key input")
     ELSE IF swap.variant = "logging"
     THEN LET lamportsIn == LamportsOf[swap.amountIn]
              data == BuyData(lamportsIn, MinusOne)
          IN  IF data = << >>
              THEN SwapFail("The value of \"value\" is out of range.")
              ELSE swap' = [swap EXCEPT !.pc = "ata",
                              !.lamportsIn = lamportsIn, !.data = data]
     ELSE swap' = [swap EXCEPT !.pc = "blockhash"]
  /\ UNCHANGED <<pipeVars, valVars, fp>>

\* getLatestBlockhash returns (index.js:58, part_000:101)
SwapBlockhash(ok) ==
  /\ swap.pc = "blockhash"
  /\ IF ~ok THEN SwapFail("failed to get recent blockhash")
     ELSE IF swap.variant = "logging"
     THEN swap' = [swap EXCEPT !.pc = "simulate", !.blockhash = TRUE,
                     !.tx = TxInstructions(swap.createUserAtaIx,
                              [kind |-> "buy", programId |-> PUMP_PROGRAM_ID,
                               keys |-> swap.keys, data |-> swap.data])]
     ELSE LET lamportsIn == LamportsOf[swap.amountIn]
              data == BuyData(lamportsIn, MinusOne)
          IN  IF data = << >>
              THEN SwapFail("The value of \"value\" is out of range.")
              ELSE swap' = [swap EXCEPT !.pc = "ata", !.blockhash = TRUE,
                              !.lamportsIn = lamportsIn, !.data = data]
  /\ UNCHANGED <<pipeVars, valVars, fp>>

\* getAccountInfo(userATA) returns inside _getOrCreateATAIx, then the keys
\* are validated and the instruction and transaction are built
\* (index.js:77-118, part_000:79-104)
SwapGetOrCreateATA(info) ==
  /\ swap.pc = "ata"
  /\ IF info = "throw" THEN SwapFail("failed to get info about account")
     ELSE LET ix == GetOrCreateATAIx(info, SwapPayer, SwapUserATA, SwapPayer,
                                     SwapMint)
              keys == BuyKeys(SwapGlobalPda, SwapMint, SwapBondingCurvePda,
                              SwapBondingCurveATA, SwapUserATA, SwapPayer)
              buyIx == [kind |-> "buy", programId |-> PUMP_PROGRAM_ID,
                        keys |-> keys, data |-> swap.data]
          IN  swap' = [swap EXCEPT
                 !.pc = IF swap.variant = "logging" THEN "blockhash"
                        ELSE "simulate",
                 !.info = info,
                 !.createUserAtaIx = ix,
                 !.validated = ValidatedKeys(swap.variant),
                 !.keys = keys,
                 !.tx = IF swap.variant = "logging" THEN << >>
                        ELSE TxInstructions(ix, buyIx)]
  /\ UNCHANGED <<pipeVars, valVars, fp>>

\* simulateTransaction returns or throws (index.js:120-126)
SwapSimulate(sim) ==
  /\ swap.pc = "simulate"
  /\ swap' = [swap EXCEPT !.pc = AfterSimulation(sim), !.sim = sim,
                !.result = IF AfterSimulation(sim) = "done" THEN "error"
                           ELSE swap.result,
                !.error = IF AfterSimulation(sim) = "done"
                          THEN "Swap buy failed: simulation" ELSE swap.error]
  /\ UNCHANGED <<pipeVars, valVars, fp>>

\* sendAndConfirmTransaction returns or throws (index.js:128-135)
SwapSend(res) ==
  /\ swap.pc = "send"
  /\ swap' = [swap EXCEPT !.pc = "done",
                !.sendCalls = swap.sendCalls + 1,
                !.sendRes = res,
                !.sent = Append(swap.sent, swap.tx),
                !.result = IF res = "signature" THEN "ok" ELSE "error",
                !.error = IF res = "signature" THEN ""
                          ELSE "Swap buy failed: " \o res]
  /\ UNCHANGED <<pipeVars, valVars, fp>>

SendResults ==
  {"signature",
   "Transaction was not confirmed in 30.00 seconds",
   "Transaction simulation failed: insufficient lamports"}

(***************************************************************************)
(* HeliusSocketClient.js: the websocket subscriber.                        *)
(***************************************************************************)
PROGRAM_IDS == <<
  [label |-> "Raydium CPMM", id |-> 201],
  [label |-> "Pump.fun AMM", id |-> 202],
  [label |-> "Solana Token Program", id |-> 203],
  [label |-> "Raydium CLMM V4", id |-> 204] >>

Labels == {PROGRAM_IDS[k].label : k \in 1..Len(PROGRAM_IDS)}

\* PROGRAM_IDS.find(p => p.id === sourceId)?.label || 'Unknown'
LabelOf(sourceId) ==
  IF \E k \in 1..Len(PROGRAM_IDS) : PROGRAM_IDS[k].id = sourceId
  THEN PROGRAM_IDS[CHOOSE k \in 1..Len(PROGRAM_IDS) :
                      /\ PROGRAM_IDS[k].id = sourceId
                      /\ \A j \in 1..(k - 1) : PROGRAM_IDS[j].id # sourceId].label
  ELSE "Unknown"

\* a fresh signalStats entry
ZeroStats == [matches |-> 0, failures |-> 0, unresolved |-> 0, received |-> 0]

SWEEP_INTERVAL == 10000     \* setInterval(..., 10000)
DEDUP_TTL == 60000          \* Date.now() - timestamp > 60000
SLOT_CACHE_MS == 1000       \* now - cachedSlot.lastUpdated > 1000
MAX_RETRIES == 5            \* withBackoff(fn, 5, ...)
RECONNECT_BASE == 1000      \* let reconnectDelay = 1000
RECONNECT_CAP == 30000      \* Math.min(reconnectDelay * 2, 30000)

\* config/index.js
STALE_SLOT_THRESHOLD == 50
CONFIDENCE_THRESHOLD == 90
SCORE_THRESHOLD == 100

\* the clock and the chain when the process starts, and the progress of the
\* chain between two observations
StartTime == 100000
StartSlot == 150
SlotStep == 60

\* the weights of the inline score (HeliusSocketClient.js:26-47)
INLINE_SIGNAL_WEIGHTS == <<
  <<"Create_pool", 50>>, <<"InitializeMint", 40>>,
  <<"CreateMetadataAccountV3", 50>>, <<"SetAuthority", 50>>, <<"MintTo", 40>>,
  <<"AddLiquidity", 40>>, <<"Initialize2", 40>>, <<"CreateIdempotent", 30>>,
  <<"Initialize", 30>>, <<"InitializeAccount", 20>>,
  <<"CreateAccountWithSeed", 30>>, <<"Burn", 20>>,
  <<"InitializeImmutableOwner", 10>>, <<"TransferChecked", 5>>,
  <<"CloseAccount", 5>>, <<"Create", 5>>, <<"CreateAccount", 10>>,
  <<"SyncNative", 20>>, <<"InitializeAccount3", 10>>,
  <<"GetAccountDataSize", 5>> >>

\* the weights calculateSignalScore uses (part_002:22-52)
SIGNAL_WEIGHTS == <<
  <<"CreatePool", 40>>, <<"InitializeMint", 40>>, <<"InitializeMint2", 30>>,
  <<"InitializeMetadataPointer", 30>>,
  <<"InitializeVirtualPoolWithSplToken", 50>>,
  <<"UpdateMetadataAccountV2", 30>>, <<"InitializeTokenMetadata", 30>>,
  <<"CreateMetadataAccountV3", 40>>, <<"OpenPositionV2", 30>>,
  <<"MintTo", 40>>, <<"SetAuthority", 30>>, <<"AddLiquidity", 30>>,
  <<"BuyExactIn", 20>>, <<"Initialize2", 40>>, <<"CreateIdempotent", 30>>,
  <<"CreateAccountWithSeed", 30>>, <<"Initialize", 30>>,
  <<"InitializeAccount", 10>>, <<"InitializeAccount3", 10>>,
  <<"InitializeImmutableOwner", 10>>, <<"SyncNative", 20>>,
  <<"CreateAccount", 10>>, <<"Burn", 20>>, <<"CloseAccount", 5>>,
  <<"TransferChecked", 5>>, <<"Create", 100>>, <<"LockCpLiquidity", 40>>,
  <<"MigrateToCpswap", 40>>, <<"GetAccountDataSize", 5>> >>

\* sum of f over 1..n
RECURSIVE SumTo(_, _)
SumTo(f, n) == IF n = 0 THEN 0 ELSE f[n] + SumTo(f, n - 1)

\* logs.reduce with log.includes(key), case-sensitive
\* (HeliusSocketClient.js:178-183)
InlineScore(logs) ==
  SumTo([l \in 1..Len(logs) |->
           SumTo([k \in 1..Len(INLINE_SIGNAL_WEIGHTS) |->
                    IF Includes(logs[l], INLINE_SIGNAL_WEIGHTS[k][1])
                    THEN INLINE_SIGNAL_WEIGHTS[k][2] ELSE 0],
                 Len(INLINE_SIGNAL_WEIGHTS))],
        Len(logs))

\* a scorer that lets the score grow with the age of the process
calculateSignalScoreAged(logs, context) ==
  SumTo([l \in 1..Len(logs) |->
           IF Includes(ToLowerCase(logs[l]), "mintto") THEN 40 ELSE 0],
        Len(logs))
    + (now - StartTime) \div SWEEP_INTERVAL

\* calculateSignalScore(logs, context) (part_002:77-98)
calculateSignalScore(logs, context) ==
  LET lowerContext == ToLowerCase(context)
      buyBonus == IF Includes(lowerContext, "mintto")
                     \/ Includes(lowerContext, "initializemint")
                  THEN 60 ELSE 20
      mintBonus == IF Includes(lowerContext, "Initializevirtualpoolwithspltoken")
                      \/ Includes(lowerContext, "initializemint2")
                   THEN 70 ELSE 40
      OfLine(log) ==
        LET lowerLog == ToLowerCase(log)
        IN  (IF Includes(lowerLog, "buyexactin") THEN buyBonus ELSE 0)
            + (IF Includes(lowerLog, "mintto") THEN mintBonus ELSE 0)
            + SumTo([k \in 1..Len(SIGNAL_WEIGHTS) |->
                       IF Includes(lowerLog, ToLowerCase(SIGNAL_WEIGHTS[k][1]))
                       THEN SIGNAL_WEIGHTS[k][2] ELSE 0],
                    Len(SIGNAL_WEIGHTS))
  IN  SumTo([l \in 1..Len(logs) |-> OfLine(logs[l])], Len(logs))

\* logs.some(l => l.includes('Program data:'))
HasProgramData(logs) ==
  \E k \in 1..Len(logs) : Includes(logs[k], "Program data:")

(***************************************************************************)
(* Inbound messages.  A message is what JSON.parse(msg) yields: the        *)
(* subscription id, params.result.signature (set by injected messages      *)
(* only), params.result.value.signature (set by the feed), the slot of     *)
(* params.result.context and the log lines.  frame is what                 *)
(* Buffer.from(encoded, 'base64') yields for the 'Program data:' line:     *)
(* its length and the addresses at offsets 8 and 244.                      *)
(***************************************************************************)
NoFrame == [len |-> 0, at8 |-> Null, at244 |-> Null]

LaunchLogs == <<
  "Program TokenzQdBNbLqP5VEhdkAS6EPFLC1PHnBqCXEpPxuEb invoke [1]",
  "Program log: Instruction: MintTo",
  "Program log: Instruction: CreateMetadataAccountV3",
  "Program log: Instruction: InitializeMetadataPointer",
  "Program log: Instruction: InitializeMint2" >>

PumpCreateLogs == <<
  "Program 6EF8rrecthR5Dkzon8Nwu78hRvfCKubJ14M5uBEwF6P invoke [1]",
  "Program log: Instruction: Create",
  "Program log: Instruction: MintTo",
  "Program log: Instruction: SetAuthority",
  "Program data: G3KpTd7rY5YAAAA=" >>

TransferLogs == <<
  "Program 11111111111111111111111111111111 invoke [1]",
  "Program log: Instruction: Transfer" >>

PumpFrame == [len |-> 340,
              at8 |-> "6KvYCcmz1VjFxc6pmmqEWTdezssGT7XHk6CnyCNQpump",
              at244 |-> "GuvGCUW8ay7Aa1Au8TTR8rZGajZcq8ZE6spdCa3Mmoon"]

Messages == <<
  [id |-> 201, topSignature |-> Null, signature |-> "5VERv8NMvzbJMEkV",
   slot |-> 150, logs |-> LaunchLogs, frame |-> NoFrame],
  [id |-> 203, topSignature |-> Null, signature |-> "2nBhEBYYvfaAe16U",
   slot |-> 90, logs |-> LaunchLogs, frame |-> NoFrame],
  [id |-> 0, topSignature |-> "synthetic_1", signature |-> Null,
   slot |-> 150, logs |-> PumpCreateLogs, frame |-> PumpFrame],
  [id |-> 202, topSignature |-> Null, signature |-> "4hXTCkRzt9WyecNz",
   slot |-> 150, logs |-> PumpCreateLogs, frame |-> PumpFrame],
  [id |-> 204, topSignature |-> Null, signature |-> "3AsdoALgZFuq2oUV",
   slot |-> 150, logs |-> TransferLogs, frame |-> NoFrame] >>

\* result?.signature || `slot-${result?.context?.slot}`
SigOf(m) ==
  IF m.topSignature # Null THEN m.topSignature
  ELSE "slot-" \o ToString(m.slot)

\* the answers of isMintOnChain: the set of addresses it confirms
\* (tagResolver.js:252-277; a failed request answers false)
OnChainInputs(frame) ==
  IF frame = NoFrame THEN {{}} ELSE SUBSET {frame.at8, frame.at244}

NoDecode == [kind |-> "null", tag |-> Null, mint |-> Null, confidence |-> 0]

\* decodePumpFunCreate(logs) (tagResolver.js:199-249)
decodePumpFunCreate(logs, frame, onChain) ==
  IF ~HasProgramData(logs) THEN NoDecode
  ELSE IF frame.len >= 340 /\ frame.at244 \in onChain
       THEN [kind |-> "object", tag |-> "pumpfun_create",
             mint |-> frame.at244, confidence |-> 94]
  ELSE IF 8 <= frame.len - 32 /\ frame.at8 \in onChain
       THEN [kind |-> "string", tag |-> Null, mint |-> frame.at8,
             confidence |-> 0]
  ELSE IF 244 <= frame.len - 32 /\ frame.at244 \in onChain
       THEN [kind |-> "string", tag |-> Null, mint |-> frame.at244,
             confidence |-> 0]
  ELSE NoDecode

NoTag == [kind |-> "null", tag |-> Null, confidence |-> 0, mint |-> Null,
          source |-> Null, message |-> "", steps |-> << >>]

\* buildTag(tag, confidence, mint, source) (tagResolver.js:290-294)
buildTag(tag, confidence, mint, source) ==
  LET override == source = "decoder" /\ mint # "unknown"
  IN  IF ~override /\ confidence < CONFIDENCE_THRESHOLD THEN NoTag
      ELSE [NoTag EXCEPT !.kind = "tag", !.tag = tag,
              !.confidence = confidence, !.mint = mint, !.source = source]

\* resolveTag(null, logs, connection) (tagResolver.js:81-123); onChain is
\* what isMintOnChain answers during the call.  isValidMint is bound
\* nowhere in tagResolver.js: reaching line 100 throws a ReferenceError.
resolveTag(logs, frame, onChain) ==
  LET rawScore == calculateSignalScore(logs, Join(logs, " "))
      fingerprintMatch == matchFingerprint(logs, << >>, "unknown")
      decoding == fingerprintMatch.tag = "pumpfun_create"
                    /\ HasProgramData(logs)
      parsed == decodePumpFunCreate(logs, frame, onChain)
      steps == <<"rawScore", "fingerprint">>
                 \o (IF decoding THEN <<"decode">> ELSE << >>)
      fallback ==
        IF fingerprintMatch = NoMatch
        THEN IF rawScore >= SCORE_THRESHOLD
             THEN \* the score itself is the confidence; confidences are
                  \* kept in hundredths
                  buildTag("score_only_fallback", 100 * rawScore, "unknown",
                           "main")
             ELSE NoTag
        ELSE buildTag(fingerprintMatch.tag, fingerprintMatch.confidence,
                      "unknown", "main")
  IN  IF decoding /\ parsed.kind # "null"
      THEN [NoTag EXCEPT !.kind = "throw",
              !.message = "isValidMint is not defined",
              !.steps = steps \o <<"validate">>]
      ELSE [fallback EXCEPT !.steps = steps]

\* what the handler computes from each message once its slot is fresh:
\* evaluated once per message and answer of isMintOnChain
Resolved ==
  [p \in {<<k, onChain>> : k \in 1..Len(Messages),
                           onChain \in SUBSET {PumpFrame.at8, PumpFrame.at244}} |->
     resolveTag(Messages[p[1]].logs, Messages[p[1]].frame, p[2])]

InlineScores == [k \in 1..Len(Messages) |-> InlineScore(Messages[k].logs)]

\* the results of snipeEngine.executeSnipe: the value, or the error thrown
ExecOutcomes == {
  [kind |-> "ok", message |-> ""],
  [kind |-> "RateLimited", message |-> "429 Too Many Requests"],
  [kind |-> "NotConfirmed",
   message |-> "Transaction was not confirmed in 30.00 seconds. Check signature 3kTm429vQx"],
  [kind |-> "SimulationRejected",
   message |-> "Simulation failed: custom program error: 0x1771"] }

\* the results of connection.getSlot
SlotOutcomes == {
  [kind |-> "ok", message |-> ""],
  [kind |-> "RateLimited", message |-> "429 Too Many Requests"],
  [kind |-> "error", message |-> "fetch failed"] }

\* err.message?.includes('429') (HeliusSocketClient.js:96)
IsRateLimit(err) == Includes(err.message, "429")

Retriable == [o \in ExecOutcomes \cup SlotOutcomes |-> IsRateLimit(o)]

\* a stale check that lets pass what is up to twice the threshold behind
IsStaleLate(currentSlot, slot) == currentSlot - slot > 2 * STALE_SLOT_THRESHOLD

\* delta > config.STALE_SLOT_THRESHOLD (HeliusSocketClient.js:172-173)
IsStale(currentSlot, slot) == currentSlot - slot > STALE_SLOT_THRESHOLD

(***************************************************************************)
(* createWebSocket and its handlers.                                       *)
(***************************************************************************)
\* the locals of one createWebSocket() call
NewSession == [state |-> "connecting", reconnectDelay |-> RECONNECT_BASE,
               reconnectAttempts |-> 0, timer |-> FALSE, opened |-> FALSE]

\* a Map as the set of its entries
MapHas(map, sig) == \E e \in map : e.sig = sig
MapSet(map, sig, ts) ==
  {e \in map : e.sig # sig} \cup {[sig |-> sig, timestamp |-> ts]}

\* a sweep that deletes what is older than half the horizon
SweepEarly(map, t) == {e \in map : ~(2 * (t - e.timestamp) > DEDUP_TTL)}

\* the setInterval callback at time t (HeliusSocketClient.js:113-119)
Sweep(map, t) == {e \in map : ~(t - e.timestamp > DEDUP_TTL)}

Min(a, b) == IF a < b THEN a ELSE b

\* the locals of one ws.on('message') invocation; repeated tells that, when
\* the message came, an earlier delivery's entry for its key was still held
\* by some session's map
NewTask(s, k) ==
  [sess |-> s, msg |-> k, sig |-> SigOf(Messages[k]),
   repeated |-> \E r \in 1..Len(processedSigs) :
                   MapHas(processedSigs[r], SigOf(Messages[k])),
   label |-> LabelOf(Messages[k].id), pc |-> "done", t0 |-> 0, i |-> 0,
   served |-> 0, currentSlot |-> 0, score |-> 0, tagInfo |-> NoTag,
   steps |-> << >>, execCalls |-> 0, resent |-> FALSE, bumped |-> Null,
   outcome |-> Null]

Bump(stats, label, field) == [stats EXCEPT ![label][field] = @ + 1]

\* signalStats[sourceLabel] = {...} if missing
WithEntry(stats, label) ==
  IF label \in DOMAIN stats THEN stats
  ELSE [l \in DOMAIN stats \cup {label} |->
          IF l = label THEN ZeroStats ELSE stats[l]]

\* ws.on('open') (HeliusSocketClient.js:121-141)
Open(s) ==
  /\ exited = "running"
  /\ sessions[s].state = "connecting"
  /\ sessions' = [sessions EXCEPT ![s].state = "open",
                    ![s].reconnectDelay = RECONNECT_BASE,
                    ![s].reconnectAttempts = 0,
                    ![s].opened = TRUE]
  /\ UNCHANGED <<now, chainSlot, processedSigs, signalStats, cachedSlot,
                 tasks, exited, faults, swap, valVars, fp>>

\* a close handler that schedules the reconnect and leaves the session as
\* it is
CloseStaysOpen(s) ==
  /\ exited = "running"
  /\ sessions[s].state \in {"connecting", "open"}
  /\ ~sessions[s].timer
  /\ sessions' = [sessions EXCEPT ![s].reconnectAttempts = @ + 1,
                    ![s].reconnectDelay = Min(@ * 2, RECONNECT_CAP),
                    ![s].timer = TRUE]
  /\ UNCHANGED <<now, chainSlot, processedSigs, signalStats, cachedSlot,
                 tasks, exited, faults, swap, valVars, fp>>

\* ws.on('close') (HeliusSocketClient.js:240-247)
Close(s) ==
  /\ exited = "running"
  /\ sessions[s].state \in {"connecting", "open"}
  /\ sessions' = [sessions EXCEPT ![s].state = "closed",
                    ![s].reconnectAttempts = @ + 1,
                    ![s].reconnectDelay = Min(@ * 2, RECONNECT_CAP),
                    ![s].timer = TRUE]
  /\ UNCHANGED <<now, chainSlot, processedSigs, signalStats, cachedSlot,
                 tasks, exited, faults, swap, valVars, fp>>

\* the reconnect timer: setTimeout(createWebSocket, ...) fires
\* (HeliusSocketClient.js:106-111, 246)
Reconnect(s) ==
  /\ exited = "running"
  /\ sessions[s].timer
  /\ Len(sessions) < MaxSessions
  /\ sessions' = Append([sessions EXCEPT ![s].timer = FALSE], NewSession)
  /\ processedSigs' = Append(processedSigs, {})
  /\ UNCHANGED <<now, chainSlot, signalStats, cachedSlot, tasks, exited,
                 faults, swap, valVars, fp>>

\* process.on('SIGINT') (HeliusSocketClient.js:265-269): ws.close() and
\* process.exit(0) in the same callback; the process ends at once, whatever
\* the handlers that are waiting
Sigint ==
  /\ exited = "running"
  /\ exited' = "exit0"
  /\ UNCHANGED <<now, chainSlot, sessions, processedSigs, signalStats,
                 cachedSlot, tasks, faults, swap, valVars, fp>>

\* the clock reaches the next sweep time: every session's interval callback
\* runs, closed sessions included (the intervals are never cleared)
Tick ==
  /\ exited = "running"
  /\ now < StartTime + MaxTicks * SWEEP_INTERVAL
  /\ now' = now + SWEEP_INTERVAL
  /\ processedSigs' = [s \in DOMAIN processedSigs |->
                         Sweep(processedSigs[s], now')]
  /\ UNCHANGED <<chainSlot, sessions, signalStats, cachedSlot, tasks, exited,
                 faults, swap, valVars, fp>>

\* the chain moves on by SlotStep slots
ChainAdvance ==
  /\ exited = "running"
  /\ chainSlot < StartSlot + MaxSlotSteps * SlotStep
  /\ chainSlot' = chainSlot + SlotStep
  /\ UNCHANGED <<now, sessions, processedSigs, signalStats, cachedSlot, tasks,
                 exited, faults, swap, valVars, fp>>

\* a handler that leaves the recording of a fresh signature to a later step
DeliverRecordsLate(s, k, granted) ==
  /\ exited = "running"
  /\ sessions[s].state = "open"
  /\ Len(tasks) < MaxTasks
  /\ granted \/ faults < MaxFaults
  /\ faults' = IF granted THEN faults ELSE faults + 1
  /\ LET task == NewTask(s, k)
         stats == Bump(WithEntry(signalStats, task.label), task.label,
                       "received")
     IN  IF ~granted
         THEN /\ tasks' = Append(tasks, [task EXCEPT !.outcome = "rate_limited"])
              /\ UNCHANGED <<signalStats, processedSigs>>
         ELSE IF MapHas(processedSigs[s], task.sig)
         THEN /\ tasks' = Append(tasks, [task EXCEPT !.outcome = "duplicate",
                                           !.steps = <<"dedup">>])
              /\ signalStats' = stats
              /\ UNCHANGED processedSigs
         ELSE /\ tasks' = Append(tasks, [task EXCEPT !.pc = "throttle",
                                           !.steps = <<"dedup">>])
              /\ signalStats' = stats
              /\ UNCHANGED processedSigs
  /\ UNCHANGED <<now, chainSlot, sessions, cachedSlot, exited, swap, valVars,
                 fp>>

\* a handler that counts a message as received only after the dedup check
DeliverCountsFresh(s, k, granted) ==
  /\ exited = "running"
  /\ sessions[s].state = "open"
  /\ Len(tasks) < MaxTasks
  /\ granted \/ faults < MaxFaults
  /\ faults' = IF granted THEN faults ELSE faults + 1
  /\ LET task == NewTask(s, k)
         stats == Bump(WithEntry(signalStats, task.label), task.label,
                       "received")
     IN  IF ~granted
         THEN /\ tasks' = Append(tasks, [task EXCEPT !.outcome = "rate_limited"])
              /\ UNCHANGED <<signalStats, processedSigs>>
         ELSE IF MapHas(processedSigs[s], task.sig)
         THEN /\ tasks' = Append(tasks, [task EXCEPT !.outcome = "duplicate",
                                           !.steps = <<"dedup">>])
              /\ UNCHANGED <<signalStats, processedSigs>>
         ELSE /\ tasks' = Append(tasks, [task EXCEPT !.pc = "throttle",
                                           !.steps = <<"dedup">>])
              /\ signalStats' = stats
              /\ processedSigs' = [processedSigs EXCEPT ![s] =
                                     MapSet(@, task.sig, now)]
  /\ UNCHANGED <<now, chainSlot, sessions, cachedSlot, exited, swap, valVars,
                 fp>>

\* ws.on('message') up to its first await (HeliusSocketClient.js:143-171)
Deliver(s, k, granted) ==
  /\ exited = "running"
  /\ sessions[s].state = "open"
  /\ Len(tasks) < MaxTasks
  /\ granted \/ faults < MaxFaults
  /\ faults' = IF granted THEN faults ELSE faults + 1
  /\ LET task == NewTask(s, k)
         stats == Bump(WithEntry(signalStats, task.label), task.label,
                       "received")
     IN  IF ~granted
         THEN /\ tasks' = Append(tasks, [task EXCEPT !.outcome = "rate_limited"])
              /\ UNCHANGED <<signalStats, processedSigs>>
         ELSE IF MapHas(processedSigs[s], task.sig)
         THEN /\ tasks' = Append(tasks, [task EXCEPT !.outcome = "duplicate",
                                           !.steps = <<"dedup">>])
              /\ signalStats' = stats
              /\ UNCHANGED processedSigs
         ELSE /\ tasks' = Append(tasks, [task EXCEPT !.pc = "throttle",
                                           !.steps = <<"dedup">>])
              /\ signalStats' = stats
              /\ processedSigs' = [processedSigs EXCEPT ![s] =
                                     MapSet(@, task.sig, now)]
  /\ UNCHANGED <<now, chainSlot, sessions, cachedSlot, exited, swap, valVars,
                 fp>>

\* a task that has finished: its locals are gone
Finished(task, outcome) ==
  [task EXCEPT !.pc = "done", !.outcome = outcome, !.t0 = 0, !.i = 0,
     !.served = 0]

\* the catch block (HeliusSocketClient.js:230-233).  sourceLabel is the
\* outer binding, 'Unknown': the const of the try block is out of scope.
\* Without an 'Unknown' entry the increment throws inside the catch and the
\* handler's promise rejects unhandled: the runtime warns or ends the process.
Catch(t, task, stats) ==
  IF "Unknown" \in DOMAIN stats
  THEN /\ signalStats' = Bump(stats, "Unknown", "failures")
       /\ tasks' = [tasks EXCEPT ![t] = Finished(task, "failed")]
       /\ exited' = exited
  ELSE /\ signalStats' = stats
       /\ tasks' = [tasks EXCEPT ![t] = Finished(task, "rejected")]
       /\ exited' \in {exited, "crashed"}

\* the handler once getCachedSlot has returned currentSlot, from the stale
\* check to the executeSnipe call (HeliusSocketClient.js:172-229); it runs
\* without yielding to another handler except inside resolveTag, which
\* touches no shared state
Classify(t, currentSlot, onChain) ==
  LET task == [tasks[t] EXCEPT !.currentSlot = currentSlot, !.t0 = 0,
                 !.i = 0, !.served = 0]
      m == Messages[task.msg]
      scored == [task EXCEPT !.steps = @ \o <<"stale", "score">>,
                   !.score = InlineScores[task.msg]]
      tagInfo == Resolved[<<task.msg, onChain>>]
  IN  IF IsStale(currentSlot, m.slot)
      THEN /\ tasks' = [tasks EXCEPT ![t] =
                          Finished([task EXCEPT !.steps = @ \o <<"stale">>],
                                   "stale")]
           /\ UNCHANGED <<signalStats, exited>>
      ELSE IF task.label = "Pump.fun AMM"
      THEN \* tagInfo is the promise of decodePumpFunCreate: it passes the
           \* gate, and tagInfo.confidence.toFixed(2) throws a TypeError
           Catch(t, [scored EXCEPT !.steps = @ \o <<"decode">>,
                       !.tagInfo = [NoTag EXCEPT !.kind = "promise"],
                       !.bumped = "matches"],
                 Bump(signalStats, task.label, "matches"))
      ELSE IF tagInfo.kind = "throw"
      THEN Catch(t, [scored EXCEPT !.steps = @ \o tagInfo.steps,
                       !.tagInfo = tagInfo], signalStats)
      ELSE IF tagInfo.kind = "null"
                \/ tagInfo.confidence < CONFIDENCE_THRESHOLD
      THEN /\ tasks' = [tasks EXCEPT ![t] =
                          Finished([scored EXCEPT
                                      !.steps = @ \o tagInfo.steps,
                                      !.tagInfo = tagInfo,
                                      !.bumped = "unresolved"], "unresolved")]
           /\ signalStats' = Bump(signalStats, task.label, "unresolved")
           /\ UNCHANGED exited
      ELSE /\ tasks' = [tasks EXCEPT ![t] =
                          [scored EXCEPT !.pc = "exec", !.i = 0,
                             !.execCalls = 1,
                             !.steps = @ \o tagInfo.steps \o <<"execute">>,
                             !.tagInfo = tagInfo, !.bumped = "matches"]]
           /\ signalStats' = Bump(signalStats, task.label, "matches")
           /\ UNCHANGED exited

\* getCachedSlot once throttle() resolves (HeliusSocketClient.js:80-88): a
\* fresh cache answers at once and the handler goes on
GetCachedSlot(t, onChain) ==
  /\ exited = "running"
  /\ tasks[t].pc = "throttle"
  /\ IF now - cachedSlot.lastUpdated > SLOT_CACHE_MS
     THEN /\ tasks' = [tasks EXCEPT ![t].pc = "getSlot", ![t].t0 = now,
                         ![t].i = 0, ![t].served = chainSlot]
          /\ UNCHANGED <<signalStats, exited>>
     ELSE Classify(t, cachedSlot.value, onChain)
  /\ UNCHANGED <<now, chainSlot, sessions, processedSigs, cachedSlot, faults,
                 swap, valVars, fp>>

\* connection.getSlot() settles, inside withBackoff
\* (HeliusSocketClient.js:84-87, 90-104), and the handler goes on
GetSlotReturn(t, o, onChain) ==
  /\ exited = "running"
  /\ tasks[t].pc = "getSlot"
  /\ o.kind = "ok" \/ faults < MaxFaults
  /\ faults' = IF o.kind = "ok" THEN faults ELSE faults + 1
  /\ IF o.kind = "ok"
     THEN /\ cachedSlot' = [value |-> tasks[t].served,
                            lastUpdated |-> tasks[t].t0]
          /\ Classify(t, tasks[t].served, onChain)
     ELSE IF Retriable[o] /\ tasks[t].i + 1 < MAX_RETRIES
     THEN /\ tasks' = [tasks EXCEPT ![t].i = @ + 1, ![t].served = chainSlot]
          /\ UNCHANGED <<cachedSlot, signalStats, exited>>
     ELSE /\ Catch(t, tasks[t], signalStats)
          /\ UNCHANGED cachedSlot
  /\ UNCHANGED <<now, chainSlot, sessions, processedSigs, swap, valVars, fp>>

\* snipeEngine.executeSnipe settles, inside withBackoff
\* (HeliusSocketClient.js:90-104, 223-233)
ExecReturn(t, o) ==
  /\ exited = "running"
  /\ tasks[t].pc = "exec"
  /\ o.kind = "ok" \/ faults < MaxFaults
  /\ faults' = IF o.kind = "ok" THEN faults ELSE faults + 1
  /\ IF o.kind = "ok"
     THEN /\ tasks' = [tasks EXCEPT ![t] = Finished(tasks[t], "executed")]
          /\ UNCHANGED <<signalStats, exited>>
     ELSE IF Retriable[o] /\ tasks[t].i + 1 < MAX_RETRIES
     THEN /\ tasks' = [tasks EXCEPT ![t].i = @ + 1, ![t].execCalls = @ + 1,
                         ![t].resent = @ \/ o.kind # "RateLimited"]
          /\ UNCHANGED <<signalStats, exited>>
     ELSE Catch(t, tasks[t], signalStats)
  /\ UNCHANGED <<now, chainSlot, sessions, processedSigs, cachedSlot, swap,
                 valVars, fp>>

(***************************************************************************)
(* part_007: validateMintCandidate and its cache checkedMints.             *)
(***************************************************************************)
\* the addresses validateMintCandidate is called with
MintInputs == {"6KvYCcmz1VjFxc6pmmqEWTdezssGT7XHk6CnyCNQpump",
               "GuvGCUW8ay7Aa1Au8TTR8rZGajZcq8ZE6spdCa3Mmoon"}

\* what one getAccountInfo request ends with: the answer parsed into
\* isValid, or the error fetch() throws
FetchOutcomes == {
  [kind |-> "ok", isValid |-> TRUE, message |-> ""],
  [kind |-> "ok", isValid |-> FALSE, message |-> ""],
  [kind |-> "error", isValid |-> FALSE,
   message |-> "request to https://api.mainnet-beta.solana.com failed, reason: 429"],
  [kind |-> "error", isValid |-> FALSE,
   message |-> "request to https://api.mainnet-beta.solana.com failed, reason: ECONNRESET"] }

FetchRetriable == [o \in FetchOutcomes |-> IsRateLimit(o)]

\* rpcCount with one more request for address a
CountRequest(counts, a) == [counts EXCEPT ![a] = @ + 1]

\* validateMintCandidate(pubkeyStr) up to its first await (part_007:181-189)
Validate(a) ==
  /\ Len(vcalls) < MaxCalls
  /\ IF a \in DOMAIN checkedMints
     THEN vcalls' = Append(vcalls, [addr |-> a, pc |-> "done", i |-> 0,
                                     fromCache |-> TRUE,
                                     result |-> IF checkedMints[a] THEN "true"
                                                ELSE "false"])
     ELSE vcalls' = Append(vcalls, [addr |-> a, pc |-> "throttle", i |-> 0,
                                     fromCache |-> FALSE, result |-> Null])
  /\ UNCHANGED <<checkedMints, rpcCount, pipeVars, swap, fp>>

\* the limiter grants the token: withBackoff calls fn, which sends the
\* getAccountInfo request (part_007:184-203)
ValidateFetch(c) ==
  /\ vcalls[c].pc = "throttle"
  /\ vcalls' = [vcalls EXCEPT ![c].pc = "fetch"]
  /\ rpcCount' = CountRequest(rpcCount, vcalls[c].addr)
  /\ UNCHANGED <<checkedMints, pipeVars, swap, fp>>

\* the request settles (part_007:205-216); an error goes through withBackoff
\* (HeliusSocketClient.js:90-104), which sends the request again for a
\* rate-limit error and rethrows any other
ValidateReturn(c, o) ==
  /\ vcalls[c].pc = "fetch"
  /\ o.kind = "ok" \/ faults < MaxFaults
  /\ faults' = IF o.kind = "ok" THEN faults ELSE faults + 1
  /\ IF o.kind = "ok"
     THEN /\ checkedMints' =
               [a \in DOMAIN checkedMints \cup {vcalls[c].addr} |->
                  IF a = vcalls[c].addr THEN o.isValid ELSE checkedMints[a]]
          /\ vcalls' = [vcalls EXCEPT ![c].pc = "done",
                          ![c].result = IF o.isValid THEN "true" ELSE "false"]
          /\ UNCHANGED rpcCount
     ELSE IF FetchRetriable[o] /\ vcalls[c].i + 1 < MAX_RETRIES
     THEN /\ vcalls' = [vcalls EXCEPT ![c].i = @ + 1]
          /\ rpcCount' = CountRequest(rpcCount, vcalls[c].addr)
          /\ UNCHANGED checkedMints
     ELSE /\ vcalls' = [vcalls EXCEPT ![c].pc = "done", ![c].result = "throws"]
          /\ UNCHANGED <<checkedMints, rpcCount>>
  /\ UNCHANGED <<now, chainSlot, sessions, processedSigs, signalStats,
                 cachedSlot, tasks, exited, swap, fp>>

(***************************************************************************)
(* Idle values of the parts a specification does not exercise.             *)
(***************************************************************************)
\* the subscriber right after module load: createWebSocket() was called once
PipeIdle ==
  /\ now = StartTime /\ chainSlot = StartSlot
  /\ sessions = <<NewSession>> /\ processedSigs = <<{}>>
  /\ signalStats = [l \in Labels |-> ZeroStats]
  /\ cachedSlot = [value |-> 0, lastUpdated |-> 0]
  /\ tasks = << >>
  /\ exited = "running" /\ faults = 0

SwapIdle == swap = SwapFields

ValIdle ==
  /\ checkedMints = << >> /\ vcalls = << >>
  /\ rpcCount = [a \in MintInputs |-> 0]

(***************************************************************************)
(* Specification of matchFingerprint as a function of its inputs.          *)
(***************************************************************************)
InitMatch ==
  /\ PipeIdle /\ SwapIdle /\ ValIdle
  /\ \E l \in LogInputs, i \in InstructionInputs, p \in ProgramIdInputs :
        fp = [pc |-> "call", logs |-> l, instructions |-> i,
              programId |-> p, result |-> NoMatch]

CallMatchFingerprint ==
  /\ fp.pc = "call"
  /\ fp' = [fp EXCEPT !.pc = "returned",
              !.result = matchFingerprint(fp.logs, fp.instructions,
                                          fp.programId)]
  /\ UNCHANGED <<pipeVars, swap, valVars>>

NextMatch == CallMatchFingerprint

SpecMatch == InitMatch /\ [][NextMatch]_vars

\* C10: when two or more fingerprints pass for the same (logs, instructions,
\* program id), matchFingerprint returns the one earliest in configuration
\* order: the returned tag passes and no fingerprint configured before it does.
FingerprintPriority ==
  fp.pc = "returned" =>
     \A passing \in {PassingTags} :
        /\ (passing # {} => fp.result # NoMatch)
        /\ (fp.result # NoMatch =>
              /\ fp.result.tag \in passing
              /\ \A t \in passing : TagIndex(fp.result.tag) <= TagIndex(t))

\* two fingerprints pass and the earlier one was returned
FingerprintPriorityWitness ==
  /\ fp.pc = "returned"
  /\ fp.result # NoMatch
  /\ \E passing \in {PassingTags} :
        /\ Cardinality(passing) >= 2
        /\ \A t \in passing : TagIndex(fp.result.tag) <= TagIndex(t)

\* the stated conditions of a match, for the input held in fp: the program
\* matched, match_count + 1 reaches min_score, and the logic passes
MeetsMatchConditions(k) ==
  LET fpr == FINGERPRINTS[k]
      logText == ToLowerCase(Join(fp.logs, " "))
      count == MatchCount(fpr, logText, MapLower(fp.instructions))
      programMatched == ProgramMatched(fpr, logText, fp.programId)
  IN  /\ programMatched
      /\ 100 * (count + 1) >= fpr.minScore
      /\ CASE fpr.logic = "AND" -> count = Len(fpr.instructions)
           [] fpr.logic = "OR" -> count > 0 \/ programMatched
           [] fpr.logic = "FUZZY" -> 2 * count >= Len(fpr.instructions)
           [] OTHER -> FALSE

\* C11: matchFingerprint returns the first fingerprint, in configuration
\* order, whose program matched, whose match_count + 1 reaches min_score and
\* whose logic passes (AND: all required instructions; OR: one condition;
\* FUZZY: at least half of them, rounded up), and returns none when no
\* fingerprint meets these conditions.
MatchConditions ==
  fp.pc = "returned" =>
     LET meeting == {k \in 1..Len(FINGERPRINTS) : MeetsMatchConditions(k)}
     IN  IF meeting = {}
         THEN fp.result = NoMatch
         ELSE /\ fp.result # NoMatch
              /\ \E k \in meeting :
                    /\ \A j \in meeting : k <= j
                    /\ fp.result.tag = FINGERPRINTS[k].tag
                    /\ fp.result.confidence = FINGERPRINTS[k].confidence

\* a FUZZY fingerprint was returned with only a part of its instructions
\* present, for an input in which some required instruction of every other
\* fingerprint is missing or its program did not match
MatchConditionsWitness ==
  /\ fp.pc = "returned"
  /\ fp.result # NoMatch
  /\ \E k \in 1..Len(FINGERPRINTS) :
        /\ fp.result.tag = FINGERPRINTS[k].tag
        /\ FINGERPRINTS[k].logic = "FUZZY"
        /\ fp.result.score - 1 < Len(FINGERPRINTS[k].instructions)
        /\ \E j \in 1..Len(FINGERPRINTS) :
              /\ j < k
              /\ ~MeetsMatchConditions(j)
              /\ ProgramMatched(FINGERPRINTS[j],
                                ToLowerCase(Join(fp.logs, " ")), fp.programId)

\* match_count of fingerprint k for the input held in fp, in hundredths
MatchCountOf(k) ==
  100 * MatchCount(FINGERPRINTS[k], ToLowerCase(Join(fp.logs, " ")),
                   MapLower(fp.instructions))

\* C12: a fingerprint whose match_count is below its min_score is not the
\* one matchFingerprint returns.
MinScoreBoundary ==
  fp.pc = "returned" =>
     \A k \in 1..Len(FINGERPRINTS) :
        MatchCountOf(k) < FINGERPRINTS[k].minScore =>
           fp.result.tag # FINGERPRINTS[k].tag

\* the program of a fingerprint matched and one of its instructions is
\* present, which is below its min_score, and the fingerprint was not returned
MinScoreBoundaryWitness ==
  /\ fp.pc = "returned"
  /\ \E k \in 1..Len(FINGERPRINTS) :
        /\ ProgramMatched(FINGERPRINTS[k], ToLowerCase(Join(fp.logs, " ")),
                          fp.programId)
        /\ MatchCountOf(k) > 0
        /\ MatchCountOf(k) < FINGERPRINTS[k].minScore
        /\ fp.result.tag # FINGERPRINTS[k].tag

(***************************************************************************)
(* Specification of one executePumpSwap run.                               *)
(***************************************************************************)
InitSwap ==
  /\ PipeIdle /\ ValIdle /\ fp = FpIdle
  /\ \E v \in Variants, k \in SecretKeys, t \in TokenOutInputs,
        a \in DOMAIN LamportsOf :
        swap = [SwapFields EXCEPT !.pc = "start", !.variant = v,
                  !.decryptedKey = k, !.tokenOut = t, !.amountIn = a]

NextSwap ==
  \/ SwapBegin
  \/ \E ok \in BOOLEAN : SwapBlockhash(ok)
  \/ \E info \in {"absent", "present", "throw"} : SwapGetOrCreateATA(info)
  \/ \E sim \in {"ok", "err", "throw"} : SwapSimulate(sim)
  \/ \E res \in SendResults : SwapSend(res)

SpecSwap == InitSwap /\ [][NextSwap]_vars

SimFailed == swap.sim \in {"err", "throw"}

CountKind(tx, kind) == Cardinality({i \in 1..Len(tx) : tx[i].kind = kind})

\* C4: every submitted buy transaction holds exactly one launchpad-buy
\* instruction and at most one create-ATA instruction; the create-ATA
\* instruction is there iff getAccountInfo(user_ata) returned absent at build
\* time, and then it precedes the buy.
SubmittedTxShape ==
  \A k \in 1..Len(swap.sent) :
     LET tx == swap.sent[k]
     IN  /\ CountKind(tx, "buy") = 1
         /\ CountKind(tx, "createATA") <= 1
         /\ Len(tx) = CountKind(tx, "buy") + CountKind(tx, "createATA")
         /\ (CountKind(tx, "createATA") = 1 <=> swap.info = "absent")
         /\ \A i, j \in 1..Len(tx) :
               tx[i].kind = "createATA" /\ tx[j].kind = "buy" => i < j
         /\ \A i \in 1..Len(tx) :
               tx[i].kind = "buy" => tx[i].programId = PUMP_PROGRAM_ID

\* a transaction with the create-ATA instruction ahead of the buy was sent
SubmittedTxShapeWitness ==
  /\ Len(swap.sent) = 1 /\ swap.info = "absent"
  /\ Len(swap.sent[1]) = 2
  /\ swap.sent[1][1].kind = "createATA" /\ swap.sent[1][2].kind = "buy"

\* the amounts and sentinels named by C5
AmountCases ==
  {BigOfNat(0), BigOfNat(1), Big(FALSE, 0, 32768, 0, 0),
   Big(FALSE, 0, 0, 0, 16384), BigOfNat(10000000)}
SentinelCases == {MinusOne, BigOfNat(0)}

BuyDataShape(data, lamportsIn, maxSol) ==
  /\ Len(data) = 24
  /\ SubSeq(data, 1, 8) = <<102, 6, 61, 18, 1, 218, 235, 234>>
  /\ readBigInt64LE(SubSeq(data, 9, 16)) = lamportsIn
  /\ readBigInt64LE(SubSeq(data, 17, 24)) = maxSol

\* C5: the assembled buy-instruction data is exactly 24 bytes, bytes 0-7 the
\* configured discriminator, bytes 8-15 and 16-23 the two's-complement
\* little-endian int64 of amount_native and of the sentinel, so both decode
\* back to their inputs (for amounts 0, 1, 2^31, 2^62 and sentinels -1, 0), and
\* amount 10_000_000 with sentinel -1 gives 8096980000000000 ffffffffffffffff.
BuyDataLayout ==
  /\ (swap.data # << >> =>
        BuyDataShape(swap.data, LamportsOf[swap.amountIn], MinusOne))
  /\ (swap.tx # << >> =>
        \A i \in 1..Len(swap.tx) :
           swap.tx[i].kind = "buy" =>
              BuyDataShape(swap.tx[i].data, LamportsOf[swap.amountIn],
                           MinusOne))
  /\ \A a \in AmountCases, m \in SentinelCases :
        BuyDataShape(BuyData(a, m), a, m)
  /\ BufferToHex(BuyData(BigOfNat(10000000), MinusOne))
        = "66063d1201daebea8096980000000000ffffffffffffffff"

\* the buy of 0.01 SOL was assembled into a transaction
BuyDataLayoutWitness ==
  /\ swap.amountIn = "0.01" /\ swap.tx # << >>
  /\ BufferToHex(swap.data)
        = "66063d1201daebea8096980000000000ffffffffffffffff"

KeyNames ==
  <<"globalPda", "globalFeeVault", "mint", "bondingCurvePda",
    "bondingCurveATA", "userATA", "payer", "systemProgram", "tokenProgram",
    "rentSysvar", "configAuthority", "pumpProgram">>

\* the canonical order of the buy's accounts
CanonicalOrder(keys) ==
  /\ Len(keys) = 12
  /\ keys[1].pubkey = [kind |-> "pda", of |-> <<"global", PUMP_PROGRAM_ID>>]
  /\ keys[2].pubkey = KeyOf(GLOBAL_FEE_VAULT)
  /\ keys[3].pubkey = SwapMint
  /\ keys[4].pubkey = [kind |-> "pda",
                       of |-> <<"bonding-curve", SwapMint.of[1],
                                PUMP_PROGRAM_ID>>]
  /\ keys[5].pubkey = [kind |-> "ata", of |-> <<SwapMint, keys[4].pubkey>>]
  /\ keys[6].pubkey = [kind |-> "ata", of |-> <<SwapMint, SwapPayer>>]
  /\ keys[7].pubkey = SwapPayer
  /\ keys[8].pubkey = KeyOf(SYSTEM_PROGRAM_ID)
  /\ keys[9].pubkey = KeyOf(TOKEN_PROGRAM_ID)
  /\ keys[10].pubkey = KeyOf(SYSVAR_RENT)
  /\ keys[11].pubkey = KeyOf(CONFIG_AUTHORITY)
  /\ keys[12].pubkey = KeyOf(PUMP_PROGRAM_ID)
  /\ {i \in 1..12 : keys[i].isSigner} = {7}
  /\ {i \in 1..12 : keys[i].isWritable} = {2, 4, 5, 6, 7}

Init == PipeIdle /\ SwapIdle /\ ValIdle /\ fp = FpIdle

Next ==
  \/ \E s \in 1..Len(sessions) : Open(s) \/ Close(s) \/ Reconnect(s)
  \/ Tick
  \/ ChainAdvance
  \/ Sigint
  \/ \E s \in 1..Len(sessions), k \in 1..Len(Messages), granted \in BOOLEAN :
        Deliver(s, k, granted)
  \/ \E t \in 1..Len(tasks) :
        \E onChain \in OnChainInputs(Messages[tasks[t].msg].frame) :
           \/ GetCachedSlot(t, onChain)
           \/ \E o \in SlotOutcomes : GetSlotReturn(t, o, onChain)
  \/ \E t \in 1..Len(tasks), o \in ExecOutcomes : ExecReturn(t, o)

Spec == Init /\ [][Next]_vars

\* the tasks whose handler made the stale check
StaleChecked(t) == SeqIncludes(tasks[t].steps, "stale")

\* the number of tasks of a source that bumped one of its counters
Bumps(label, field) ==
  Cardinality({t \in 1..Len(tasks) :
                 tasks[t].label = label /\ tasks[t].bumped = field})

\* C2: a message whose slot lies more than STALE_SLOT_THRESHOLD behind the
\* cached current slot is dropped at the stale check: it is not scored, not
\* classified, bumps neither matches nor unresolved (the counters are exactly
\* the bumps of the other tasks) and never reaches the executor.
StaleGate ==
  /\ \A t \in 1..Len(tasks) :
        (/\ StaleChecked(t)
         /\ tasks[t].currentSlot - Messages[tasks[t].msg].slot
              > STALE_SLOT_THRESHOLD)
        => /\ tasks[t].pc = "done"
           /\ tasks[t].outcome = "stale"
           /\ tasks[t].steps = <<"dedup", "stale">>
           /\ tasks[t].score = 0
           /\ tasks[t].tagInfo = NoTag
           /\ tasks[t].bumped = Null
           /\ tasks[t].execCalls = 0
  /\ \A l \in DOMAIN signalStats :
        /\ signalStats[l].matches = Bumps(l, "matches")
        /\ signalStats[l].unresolved = Bumps(l, "unresolved")

\* a launch message was dropped as stale while another one was executed
StaleGateWitness ==
  \E t, u \in 1..Len(tasks) :
     /\ tasks[t].outcome = "stale"
     /\ tasks[t].currentSlot - Messages[tasks[t].msg].slot
          > STALE_SLOT_THRESHOLD
     /\ InlineScores[tasks[t].msg] > 0
     /\ tasks[u].execCalls > 0

\* C1: when the same signature is delivered again while the dedup entry of
\* its first delivery is still held, the later delivery is dropped at the
\* dedup check and the executor is invoked for at most one of the two.
ExecutedOncePerSignature ==
  \A a, b \in 1..Len(tasks) :
     (/\ a < b
      /\ tasks[a].msg = tasks[b].msg
      /\ tasks[b].repeated)
     => ~(tasks[a].execCalls > 0 /\ tasks[b].execCalls > 0)

\* C8: executeSnipe is never invoked again for a message after it failed
\* with NotConfirmed, SimulationRejected or InsufficientBalance.
NoResendAfterTerminalFailure ==
  \A t \in 1..Len(tasks) : ~tasks[t].resent

\* position of a step in the steps of a task, 0 when it was not taken
StepIndex(steps, step) ==
  IF SeqIncludes(steps, step)
  THEN CHOOSE k \in 1..Len(steps) :
         steps[k] = step /\ \A j \in 1..(k - 1) : steps[j] # step
  ELSE 0

\* C9: a message for which the executor is invoked went through dedup check,
\* stale check, score, fingerprint, decode and validate, in this order,
\* before the executor call.
StepsInCanonicalOrder ==
  \A t \in 1..Len(tasks) :
     tasks[t].execCalls > 0 =>
        LET at(step) == StepIndex(tasks[t].steps, step)
        IN  /\ 0 < at("dedup")
            /\ at("dedup") < at("stale")
            /\ at("stale") < at("score")
            /\ at("score") < at("fingerprint")
            /\ at("fingerprint") < at("decode")
            /\ at("decode") < at("validate")
            /\ at("validate") < at("execute")

(***************************************************************************)
(* Specification of the mint validator: calls of validateMintCandidate,    *)
(* sequential or overlapping.                                              *)
(***************************************************************************)
InitValidate == PipeIdle /\ SwapIdle /\ ValIdle /\ fp = FpIdle

NextValidate ==
  \/ \E a \in MintInputs : Validate(a)
  \/ \E c \in 1..Len(vcalls) : ValidateFetch(c)
  \/ \E c \in 1..Len(vcalls), o \in FetchOutcomes : ValidateReturn(c, o)

SpecValidate == InitValidate /\ [][NextValidate]_vars

\* C7: for every address, all validate calls together issue at most one
\* getAccountInfo request.
OneRequestPerAddress ==
  \A a \in MintInputs : rpcCount[a] <= 1


(***************************************************************************)
(* Specification of resolveTag as a function of the log lines, the decoded *)
(* 'Program data:' frame and the answers of isMintOnChain.                 *)
(***************************************************************************)
\* the lines resolveTag is called with are drawn from
ResolveLinePool == <<
  "Program 6EF8rrecthR5Dkzon8Nwu78hRvfCKubJ14M5uBEwF6P invoke [1]",
  "Program log: Instruction: Create",
  "Program log: Instruction: MintTo",
  "Program log: Instruction: SetAuthority",
  "Program data: G3KpTd7rY5YAAAA=" >>

\* the lines of ResolveLinePool whose index is in S, in pool order
RECURSIVE PickResolveLines(_, _)
PickResolveLines(S, k) ==
  IF k > Len(ResolveLinePool) THEN << >>
  ELSE (IF k \in S THEN <<ResolveLinePool[k]>> ELSE << >>)
         \o PickResolveLines(S, k + 1)

\* a frame too short for the fixed offset 244
ShortFrame == [len |-> 48, at8 |-> PumpFrame.at8, at244 |-> Null]

InitResolve ==
  /\ PipeIdle /\ SwapIdle /\ ValIdle
  /\ \E S \in SUBSET (1..Len(ResolveLinePool)),
        onChain \in SUBSET {PumpFrame.at8, PumpFrame.at244} :
        \E frame \in (IF 5 \in S THEN {PumpFrame, ShortFrame} ELSE {NoFrame}) :
           fp = [pc |-> "call", logs |-> PickResolveLines(S, 1),
                 frame |-> frame, onChain |-> onChain, result |-> NoTag]

CallResolveTag ==
  /\ fp.pc = "call"
  /\ fp' = [fp EXCEPT !.pc = "returned",
              !.result = resolveTag(fp.logs, fp.frame, fp.onChain)]
  /\ UNCHANGED <<pipeVars, swap, valVars>>

NextResolve == CallResolveTag

SpecResolve == InitResolve /\ [][NextResolve]_vars

\* str.endsWith(suffix)
EndsWith(str, suffix) ==
  /\ Len(str) >= Len(suffix)
  /\ SubSeq(str, Len(str) - Len(suffix) + 1, Len(str)) = suffix

\* the three lines of the pump-create trace: the launchpad program's invoke
\* line, the Create instruction and the data frame
PumpCreateTrace == PickResolveLines({1, 2, 5}, 1)

\* C13: for the trace made of the launchpad invoke line, 'Program log:
\* Instruction: Create' and a 'Program data:' frame whose address at offset 8
\* ends in 'pump' (and is a mint on chain), resolveTag yields pumpfun_create
\* with confidence 0.94 and that address as mint.
PumpCreateClassified ==
  (/\ fp.pc = "returned"
   /\ fp.logs = PumpCreateTrace
   /\ EndsWith(fp.frame.at8, "pump")
   /\ fp.frame.at8 \in fp.onChain)
  => /\ fp.result.kind = "tag"
     /\ fp.result.tag = "pumpfun_create"
     /\ fp.result.confidence = 94
     /\ fp.result.mint = fp.frame.at8

(***************************************************************************)
(* Specification of calculateSignalScore: repeated calls on one input      *)
(* while the clock and the chain move on.                                  *)
(***************************************************************************)
ScoreLinePool == <<
  "Program log: Instruction: BuyExactIn",
  "Program log: Instruction: MintTo",
  "Program log: Instruction: InitializeMint2",
  "Program log: Instruction: InitializeVirtualPoolWithSplToken",
  "Program log: Instruction: CreateAccount",
  "Program log: Burn 5 tokens, Burn fee",
  "Program log: instruction: closeaccount" >>

\* the lines of ScoreLinePool whose index is in S, in pool order
RECURSIVE PickScoreLines(_, _)
PickScoreLines(S, k) ==
  IF k > Len(ScoreLinePool) THEN << >>
  ELSE (IF k \in S THEN <<ScoreLinePool[k]>> ELSE << >>)
         \o PickScoreLines(S, k + 1)

\* the context argument: the joined lines, as the callers pass it, or a
\* text of its own
ContextInputs(logs) ==
  {Join(logs, " "), "", "Instruction: MintTo",
   "Instruction: InitializeVirtualPoolWithSplToken"}

InitScore ==
  /\ PipeIdle /\ SwapIdle /\ ValIdle
  /\ \E S \in SUBSET (1..Len(ScoreLinePool)) :
        \E context \in ContextInputs(PickScoreLines(S, 1)) :
           fp = [pc |-> "call", logs |-> PickScoreLines(S, 1),
                 context |-> context, scores |-> << >>]

\* one call; the entry keeps the score and the time of the call
CallCalculateSignalScore ==
  /\ Len(fp.scores) < MaxScoreCalls
  /\ fp' = [fp EXCEPT !.pc = "returned",
              !.scores = Append(@, [value |-> calculateSignalScore(fp.logs,
                                                                  fp.context),
                                    at |-> now])]
  /\ UNCHANGED <<pipeVars, swap, valVars>>

NextScore ==
  \/ CallCalculateSignalScore
  \/ Tick
  \/ ChainAdvance

SpecScore == InitScore /\ [][NextScore]_vars

ContainsNoCase(text, needle) ==
  Includes(ToLowerCase(text), ToLowerCase(needle))

\* the sum of the weights of the table, one per line and name it contains
WeightPart(logs) ==
  SumTo([l \in 1..Len(logs) |->
           SumTo([k \in 1..Len(SIGNAL_WEIGHTS) |->
                    IF ContainsNoCase(logs[l], SIGNAL_WEIGHTS[k][1])
                    THEN SIGNAL_WEIGHTS[k][2] ELSE 0],
                 Len(SIGNAL_WEIGHTS))],
        Len(logs))

\* the two bonuses as stated, in hundredths
StatedBonus(logs, context) ==
  LET buy == IF ContainsNoCase(context, "mintTo")
                \/ ContainsNoCase(context, "initializeMint")
             THEN 60 ELSE 20
      mint == IF ContainsNoCase(context, "initializeVirtualPoolWithSplToken")
                 \/ ContainsNoCase(context, "initializeMint2")
              THEN 70 ELSE 40
  IN  SumTo([l \in 1..Len(logs) |->
               (IF ContainsNoCase(logs[l], "buyExactIn") THEN buy ELSE 0)
               + (IF ContainsNoCase(logs[l], "mintTo") THEN mint ELSE 0)],
            Len(logs))

\* C15: on top of the weights, each line containing 'buyExactIn' adds 0.6
\* when the context contains 'mintTo' or 'initializeMint' and 0.2 otherwise,
\* and each line containing 'mintTo' adds 0.7 when the context contains
\* 'initializeVirtualPoolWithSplToken' or 'initializeMint2' and 0.4
\* otherwise, case-insensitively.
BonusesAsStated ==
  \A i \in 1..Len(fp.scores) :
     fp.scores[i].value = WeightPart(fp.logs) + StatedBonus(fp.logs, fp.context)

\* the number of places at which needle occurs in text
Occurrences(text, needle) ==
  Cardinality({i \in 1..(Len(text) - Len(needle) + 1) :
                 SubSeq(text, i, i + Len(needle) - 1) = needle})

\* the sum over the pairs of a weight table of weight times the number of
\* occurrences of the name in the lines, compared case-insensitively
OccurrenceSum(weights, logs) ==
  SumTo([l \in 1..Len(logs) |->
           SumTo([k \in 1..Len(weights) |->
                    weights[k][2] * Occurrences(ToLowerCase(logs[l]),
                                                ToLowerCase(weights[k][1]))],
                 Len(weights))],
        Len(logs))

\* C16: for lines that draw no bonus, the score is the sum over the
\* configured pairs of weight times the number of case-insensitive
\* occurrences of the name in the lines, for calculateSignalScore and for
\* the score the message handler computes inline.
ScoreIsWeightedOccurrences ==
  (/\ fp.pc = "returned"
   /\ \A l \in 1..Len(fp.logs) :
         /\ ~ContainsNoCase(fp.logs[l], "buyExactIn")
         /\ ~ContainsNoCase(fp.logs[l], "mintTo"))
  => /\ \A i \in 1..Len(fp.scores) :
           fp.scores[i].value = OccurrenceSum(SIGNAL_WEIGHTS, fp.logs)
     /\ InlineScore(fp.logs) = OccurrenceSum(INLINE_SIGNAL_WEIGHTS, fp.logs)

(***************************************************************************)
(* The connection: reconnect delay, replacement of closed sessions, number *)
(* of live sessions, shutdown.                                             *)
(***************************************************************************)
\* 2^n
RECURSIVE Pow2(_)
Pow2(n) == IF n = 0 THEN 1 ELSE 2 * Pow2(n - 1)

\* for a closed session s: the number of close events in a row, up to and
\* including its own, with no successful open in between
RECURSIVE ConsecutiveCloses(_)
ConsecutiveCloses(s) ==
  IF s = 1 \/ sessions[s].opened THEN 1 ELSE 1 + ConsecutiveCloses(s - 1)

\* C17: the reconnect scheduled by the n-th close in a row is delayed by
\* min(base * 2^n, 30 s) (plus jitter): the delay doubles with each close
\* that follows another without an open in between.
ReconnectDelayDoubles ==
  \A s \in 1..Len(sessions) :
     sessions[s].state = "closed" =>
        sessions[s].reconnectDelay
          = Min(RECONNECT_BASE * Pow2(ConsecutiveCloses(s)), RECONNECT_CAP)

\* the pipeline with the reconnect timers firing eventually
ReconnectAny == \E s \in 1..Len(sessions) : Reconnect(s)

SpecLive == Init /\ [][Next]_vars /\ WF_vars(ReconnectAny)

\* C18: unless shutdown was requested, every close of a session is
\* eventually followed by the creation of its replacement (for the sessions
\* the model has room to replace).
CloseIsFollowedByReplacement ==
  \A s \in 1..(MaxSessions - 1) :
     [](Len(sessions) >= s /\ sessions[s].state = "closed"
          => <>(Len(sessions) > s \/ exited = "exit0"))

\* the sessions that are connecting or open
LiveSessions ==
  {s \in 1..Len(sessions) : sessions[s].state \in {"connecting", "open"}}

\* C19: at most one session is connecting or open.
AtMostOneLiveSession == Cardinality(LiveSessions) <= 1

\* a session that had been open was closed and its replacement is open
AtMostOneLiveSessionWitness ==
  /\ Len(sessions) = 2
  /\ sessions[1].opened /\ sessions[1].state = "closed"
  /\ sessions[2].state = "open"

\* C20: when the process has exited on SIGINT, every message handler that
\* had been started has run to completion.
SigintDrainsTasks ==
  exited = "exit0" => \A t \in 1..Len(tasks) : tasks[t].pc = "done"

\* ---------------------------------------------------------------------
\* The message throttle (HeliusSocketClient.js:143-148, part_002:168-173)

\* the handler that was started by the step, if the step is a delivery
Delivered == Len(tasks') = Len(tasks) + 1

\* a message refused by tryRemoveTokens is left alone: it is not parsed,
\* not entered in the dedup map, not classified and not executed
RefusedIsDropped ==
  [][Delivered /\ tasks'[Len(tasks')].outcome = "rate_limited"
       => /\ processedSigs' = processedSigs
          /\ tasks'[Len(tasks')].pc = "done"
          /\ tasks'[Len(tasks')].steps = << >>
          /\ tasks'[Len(tasks')].execCalls = 0
          /\ tasks'[Len(tasks')].tagInfo = NoTag]_vars

\* C21: a message whose rate token is refused is dropped, untouched by the
\* parser, the dedup map, the classifier and the executor, and the refusal
\* bumps a counter.
RefusedIsDroppedAndCounted ==
  [][Delivered /\ tasks'[Len(tasks')].outcome = "rate_limited"
       => /\ processedSigs' = processedSigs
          /\ tasks'[Len(tasks')].steps = << >>
          /\ tasks'[Len(tasks')].execCalls = 0
          /\ signalStats' # signalStats]_vars

\* ---------------------------------------------------------------------
\* The backoff runners: withBackoff (HeliusSocketClient.js:90-104) and
\* RateLimitedConnection._executeWithRateLimit (decoder.js:26-78).  fp holds
\* one call of a runner: its inputs, its locals and what it has done so far.

MaxAttempts == 3

BACKOFF_INITIAL == 500
BACKOFF_JITTER == 150
DEFAULT_RPC_RETRIES == 3
DEFAULT_RETRY_DELAY == 1000

\* how an invocation of fn settles: its value, or the error it throws
FnOutcomes == {
  [kind |-> "ok", message |-> ""],
  [kind |-> "err", message |-> "429 rate limit exceeded"],
  [kind |-> "err", message |-> "Too Many Requests"],
  [kind |-> "err", message |-> "request timeout"],
  [kind |-> "err", message |-> "bad gateway"],
  [kind |-> "err", message |-> "Transaction not found"] }

\* Math.random() * 150, sampled
JitterInputs == {0, 75, BACKOFF_JITTER - 1}

\* options.maxRetries || 3 and options.retryDelay || 1000 (decoder.js:19-20)
OrDefault(x, d) == IF x = 0 THEN d ELSE x

NoResult == [kind |-> "none", message |-> "", value |-> 0]

BackoffIdle ==
  [pc |-> "idle", runner |-> "none", maxRetries |-> 0, retryDelay |-> 0,
   i |-> 0, attempt |-> 0, delay |-> 0, calls |-> 0, waits |-> << >>,
   events |-> << >>, errors |-> << >>, lastError |-> NoResult,
   result |-> NoResult]

Thrown(pc, err) ==
  [pc EXCEPT !.pc = "thrown",
     !.result = [kind |-> "error", message |-> err.message, value |-> 0]]

\* withBackoff(fn, maxRetries, fnName) up to the first await of fn()
CallWithBackoff(maxRetries) ==
  /\ fp.pc = "idle"
  /\ fp' = IF 0 < maxRetries
           THEN [fp EXCEPT !.pc = "fn", !.runner = "withBackoff",
                   !.maxRetries = maxRetries, !.delay = BACKOFF_INITIAL,
                   !.calls = 1, !.events = <<"call">>]
           ELSE Thrown([fp EXCEPT !.runner = "withBackoff"],
                       [message |-> "Max retries reached."])
  /\ UNCHANGED <<pipeVars, swap, valVars>>

\* fn() settles inside withBackoff (HeliusSocketClient.js:93-101)
WithBackoffSettles(o, jitter) ==
  /\ fp.pc = "fn" /\ fp.runner = "withBackoff"
  /\ fp' = IF o.kind = "ok"
           THEN [fp EXCEPT !.pc = "returned",
                   !.result = [kind |-> "ok", message |-> "",
                               value |-> fp.calls]]
           ELSE IF Includes(o.message, "429")
           THEN [fp EXCEPT !.pc = "wait", !.errors = Append(@, o),
                   !.waits = Append(@, [base |-> fp.delay,
                                        jitter |-> jitter,
                                        after |-> o.message]),
                   !.events = Append(@, "wait"),
                   !.delay = @ * 2]
           ELSE Thrown([fp EXCEPT !.errors = Append(@, o)], o)
  /\ UNCHANGED <<pipeVars, swap, valVars>>

\* the timer of withBackoff fires: i++, the loop test, the next fn() or the
\* throw after the loop (HeliusSocketClient.js:92, 98-103)
WithBackoffWake ==
  /\ fp.pc = "wait" /\ fp.runner = "withBackoff"
  /\ fp' = IF fp.i + 1 < fp.maxRetries
           THEN [fp EXCEPT !.pc = "fn", !.i = @ + 1, !.calls = @ + 1,
                   !.events = Append(@, "call")]
           ELSE Thrown([fp EXCEPT !.i = @ + 1],
                       [message |-> "Max retries reached."])
  /\ UNCHANGED <<pipeVars, swap, valVars>>

\* the head of the while loop of _executeWithRateLimit: attempt++ and the
\* call of limiter.removeTokens(1), or the throw after the loop
\* (decoder.js:34-37, 77)
LoopHead(pc) ==
  IF pc.attempt < pc.maxRetries
  THEN [pc EXCEPT !.pc = "acquire", !.attempt = @ + 1]
  ELSE Thrown(pc, IF pc.lastError.kind = "none"
                  THEN [message |-> "RPC request failed"]
                  ELSE pc.lastError)

\* _executeWithRateLimit(fnName, ...args) of a connection constructed with
\* options {maxRetries, retryDelay} (decoder.js:19-20, 26-34)
CallExecuteWithRateLimit(maxRetries, retryDelay) ==
  /\ fp.pc = "idle"
  /\ fp' = LoopHead([fp EXCEPT !.runner = "_executeWithRateLimit",
                       !.maxRetries = OrDefault(maxRetries,
                                                DEFAULT_RPC_RETRIES),
                       !.retryDelay = OrDefault(retryDelay,
                                                DEFAULT_RETRY_DELAY),
                       !.events = <<"rpc_request_attempt">>])
  /\ UNCHANGED <<pipeVars, swap, valVars>>

\* a runner that takes its token once per call, on the first attempt only
AcquireTokenOnce ==
  /\ fp.pc = "acquire"
  /\ fp' = [fp EXCEPT !.pc = "fn", !.calls = @ + 1,
              !.events = @ \o (IF fp.attempt = 1 THEN <<"token", "call">>
                               ELSE <<"call">>)]
  /\ UNCHANGED <<pipeVars, swap, valVars>>

\* limiter.removeTokens(1) resolves and connection[fnName] is invoked
\* (decoder.js:37-40)
AcquireToken ==
  /\ fp.pc = "acquire"
  /\ fp' = [fp EXCEPT !.pc = "fn", !.calls = @ + 1,
              !.events = @ \o <<"token", "call">>]
  /\ UNCHANGED <<pipeVars, swap, valVars>>

\* connection[fnName](...args) settles inside _executeWithRateLimit
\* (decoder.js:40-75)
ExecuteSettles(o) ==
  /\ fp.pc = "fn" /\ fp.runner = "_executeWithRateLimit"
  /\ fp' =
       IF o.kind = "ok"
       THEN [fp EXCEPT !.pc = "returned",
               !.events = Append(@, "rpc_request_success"),
               !.result = [kind |-> "ok", message |-> "", value |-> fp.calls]]
       ELSE LET failed == [fp EXCEPT !.errors = Append(@, o),
                             !.lastError = [kind |-> "error",
                                            message |-> o.message,
                                            value |-> 0]]
            IN  IF Includes(o.message, "429")
                     \/ Includes(o.message, "Too Many Requests")
                THEN [failed EXCEPT !.pc = "wait",
                        !.events = @ \o <<"rpc_rate_limited", "wait">>,
                        !.waits = Append(@,
                           [base |-> fp.retryDelay * Pow2(fp.attempt - 1),
                            jitter |-> 0, after |-> o.message])]
                ELSE IF ~Includes(o.message, "timeout")
                          /\ ~Includes(o.message, "gateway")
                THEN Thrown([failed EXCEPT
                               !.events = Append(@, "rpc_request_error")],
                            o)
                ELSE [failed EXCEPT !.pc = "wait",
                        !.events = @ \o <<"rpc_request_error", "wait">>,
                        !.waits = Append(@, [base |-> fp.retryDelay,
                                             jitter |-> 0,
                                             after |-> o.message])]
  /\ UNCHANGED <<pipeVars, swap, valVars>>

\* the timer of _executeWithRateLimit fires and the loop goes round
ExecuteWake ==
  /\ fp.pc = "wait" /\ fp.runner = "_executeWithRateLimit"
  /\ fp' = LoopHead(fp)
  /\ UNCHANGED <<pipeVars, swap, valVars>>

InitBackoff == PipeIdle /\ SwapIdle /\ ValIdle /\ fp = BackoffIdle

FnSettles ==
  \E o \in FnOutcomes :
     \/ \E jitter \in JitterInputs : WithBackoffSettles(o, jitter)
     \/ ExecuteSettles(o)

TimerFires == WithBackoffWake \/ ExecuteWake

NextBackoff ==
  \/ \E maxRetries \in 1..MaxAttempts : CallWithBackoff(maxRetries)
  \/ \E maxRetries \in 0..MaxAttempts, retryDelay \in {0, BACKOFF_INITIAL} :
        CallExecuteWithRateLimit(maxRetries, retryDelay)
  \/ AcquireToken
  \/ FnSettles
  \/ TimerFires

SpecBackoff == InitBackoff /\ [][NextBackoff]_vars

\* the scheduling the runners rely on: a pending call settles, a timer that
\* was set fires, and the limiter hands out a token in the end
SpecBackoffLive ==
  /\ InitBackoff /\ [][NextBackoff]_vars
  /\ WF_vars(AcquireToken) /\ WF_vars(FnSettles) /\ WF_vars(TimerFires)

BackoffDone == fp.pc \in {"returned", "thrown"}

\* the errors the runner is stated to retry
RetriableAsStated(o) ==
  \/ Includes(o.message, "429")
  \/ Includes(o.message, "Too Many Requests")
  \/ Includes(o.message, "timeout")
  \/ Includes(o.message, "gateway")

\* C22: an error that carries 429, 'Too Many Requests', 'timeout' or
\* 'gateway' is followed by a wait (it is retried); any other error is the
\* last thing the runner sees: it is thrown to the caller as it is, with no
\* wait after it and no further invocation of fn.
RetriesExactlyRetriable ==
  \A n \in 1..Len(fp.errors) :
     IF RetriableAsStated(fp.errors[n])
     THEN Len(fp.waits) >= n
     ELSE /\ n = Len(fp.errors)
          /\ fp.pc = "thrown"
          /\ fp.result.message = fp.errors[n].message
          /\ Len(fp.waits) = n - 1
          /\ fp.calls = n

\* C23: fn is invoked at most maxRetries times; a call that returns returns
\* the value of its first successful invocation; a call all of whose
\* maxRetries attempts failed and were retried fails with the
\* retries-exhausted error; and every call returns or throws in the end.
RunIsBoundedAndEnds ==
  /\ [](/\ fp.calls <= fp.maxRetries
        /\ fp.pc = "returned"
             => /\ fp.result.kind = "ok"
                /\ fp.result.value = fp.calls
                /\ Len(fp.errors) = fp.calls - 1
        /\ (fp.pc = "thrown" /\ fp.maxRetries > 0
              /\ Len(fp.waits) = fp.maxRetries)
             => fp.result.message = "Max retries reached.")
  /\ (fp.pc # "idle") ~> BackoffDone

\* the part of C23 that does not depend on which error reports exhaustion
RunIsBoundedAndEndsAnyError ==
  /\ [](/\ fp.calls <= fp.maxRetries
        /\ fp.pc = "returned"
             => /\ fp.result.kind = "ok"
                /\ fp.result.value = fp.calls
                /\ Len(fp.errors) = fp.calls - 1)
  /\ (fp.pc # "idle") ~> BackoffDone

\* C24: the wait after the k-th failed attempt that is retried is
\* 500 * 2^(k-1) ms plus a jitter of at least 0 and less than 150 ms,
\* whatever the kind of the error.
WaitsDoubleFrom500 ==
  \A k \in 1..Len(fp.waits) :
     /\ fp.waits[k].base = BACKOFF_INITIAL * Pow2(k - 1)
     /\ fp.waits[k].jitter \in 0..(BACKOFF_JITTER - 1)

\* the same for withBackoff alone
WithBackoffWaitsDouble ==
  fp.runner = "withBackoff" => WaitsDoubleFrom500

Count(seq, S) == Cardinality({j \in 1..Len(seq) : seq[j] \in S})

OutcomeCounters ==
  {"rpc_request_success", "rpc_rate_limited", "rpc_request_error"}

\* C25: in a call of the RPC client every invocation of the RPC method comes
\* right after the acquisition of one token, every attempt that has ended
\* has emitted exactly one of the three outcome counters, and
\* rpc_request_success is emitted at most once.
TokenAndOneCounterPerAttempt ==
  fp.runner = "_executeWithRateLimit" =>
     /\ \A j \in 1..Len(fp.events) :
           fp.events[j] = "call" => j > 1 /\ fp.events[j - 1] = "token"
     /\ Count(fp.events, {"token"}) = fp.calls
     /\ Count(fp.events, OutcomeCounters)
          = IF fp.pc = "fn" THEN fp.calls - 1 ELSE fp.calls
     /\ \A j \in 1..Len(fp.events) :
           fp.events[j] \in OutcomeCounters =>
              \E c \in 1..(j - 1) :
                 /\ fp.events[c] = "call"
                 /\ \A d \in (c + 1)..(j - 1) :
                       fp.events[d] \notin OutcomeCounters \cup {"call"}
     /\ Count(fp.events, {"rpc_request_success"}) <= 1

\* a call that succeeded on its third attempt
TokenAndOneCounterPerAttemptWitness ==
  /\ fp.runner = "_executeWithRateLimit"
  /\ fp.pc = "returned"
  /\ fp.calls = 3
  /\ Count(fp.events, {"rpc_rate_limited"}) >= 1
  /\ Count(fp.events, {"rpc_request_error"}) >= 1

\* ---------------------------------------------------------------------
\* The bonding-curve decoders: PumpfunDecoder.decodePumpFunCreate
\* (decoder.js:254-300) and decodePumpFunCreate of the resolver
\* (tagResolver.js:199-249).  A frame is the buffer of one 'Program data:'
\* line: its length and the addresses that new PublicKey(buffer.slice(o,
\* o + 32)).toString() yields at the offsets 0, 8, 9 and 244; the window at
\* any other offset yields an address that neither ends with 'pump' nor
\* exists on chain.

MaxFrames == 2

UpperPump == "9xQeWvG816bUx9EPjHmaT23yvVM2ZWbrrpZb9PusPUMP"

FrameInputs ==
  {[len |-> 48, at0 |-> a0, at8 |-> a8, at9 |-> PumpFrame.at244,
    at244 |-> Null] :
      a0 \in {PumpFrame.at244, PumpFrame.at8},
      a8 \in {PumpFrame.at244, PumpFrame.at8, UpperPump}}
  \cup
  {[len |-> 340, at0 |-> PumpFrame.at244, at8 |-> a8, at9 |-> a9,
    at244 |-> a244] :
      a8 \in {PumpFrame.at244, PumpFrame.at8},
      a9 \in {PumpFrame.at244, UpperPump},
      a244 \in {PumpFrame.at244, PumpFrame.at8}}

FrameSeqInputs ==
  UNION {[1..n -> FrameInputs] : n \in 0..MaxFrames}

\* the offsets of the modelled windows of a frame, lowest first, and the
\* address of each
FrameOffsets == <<0, 8, 9, 244>>

WindowAt(frame, o) ==
  CASE o = 0 -> frame.at0 [] o = 8 -> frame.at8 [] o = 9 -> frame.at9
    [] OTHER -> frame.at244

\* candidateMint.toLowerCase().endsWith('pump')
EndsWithPump(addr) == EndsWith(ToLowerCase(addr), "pump")

PumpMint(mint) ==
  [kind |-> "object", tag |-> "pumpfun_create", mint |-> mint,
   confidence |-> 94]

\* the sliding loop of PumpfunDecoder.decodePumpFunCreate over one buffer,
\* from the k-th modelled offset on (decoder.js:286-297)
RECURSIVE SlideFrom(_, _)
SlideFrom(frame, k) ==
  IF k > Len(FrameOffsets) \/ FrameOffsets[k] > frame.len - 32 THEN NoDecode
  ELSE IF EndsWithPump(WindowAt(frame, FrameOffsets[k]))
       THEN PumpMint(WindowAt(frame, FrameOffsets[k]))
  ELSE SlideFrom(frame, k + 1)

\* PumpfunDecoder.decodePumpFunCreate over the frames from the n-th on
\* (decoder.js:258-299)
RECURSIVE PumpfunDecoderDecodeFrom(_, _)
PumpfunDecoderDecodeFrom(frames, n) ==
  IF n > Len(frames) THEN NoDecode
  ELSE IF EndsWithPump(frames[n].at8) THEN PumpMint(frames[n].at8)
  ELSE IF SlideFrom(frames[n], 1) # NoDecode THEN SlideFrom(frames[n], 1)
  ELSE PumpfunDecoderDecodeFrom(frames, n + 1)

\* decodePumpFunCreate of the resolver over the frames from the n-th on:
\* the body of its loop over dataLogs is decodePumpFunCreate of one frame
RECURSIVE ResolverDecodeFrom(_, _, _)
ResolverDecodeFrom(frames, n, onChain) ==
  IF n > Len(frames) THEN NoDecode
  ELSE LET one == decodePumpFunCreate(<<"Program data:">>, frames[n],
                                      onChain)
       IN  IF one # NoDecode THEN one
           ELSE ResolverDecodeFrom(frames, n + 1, onChain)

InitDecode ==
  /\ PipeIdle /\ SwapIdle /\ ValIdle
  /\ \E frames \in FrameSeqInputs,
        onChain \in SUBSET {PumpFrame.at8, PumpFrame.at244} :
        fp = [pc |-> "call", frames |-> frames, onChain |-> onChain,
              byDecoder |-> NoDecode, byResolver |-> NoDecode]

CallDecodePumpFunCreate ==
  /\ fp.pc = "call"
  /\ fp' = [fp EXCEPT !.pc = "returned",
              !.byDecoder = PumpfunDecoderDecodeFrom(fp.frames, 1),
              !.byResolver = ResolverDecodeFrom(fp.frames, 1, fp.onChain)]
  /\ UNCHANGED <<pipeVars, swap, valVars>>

NextDecode == CallDecodePumpFunCreate

SpecDecode == InitDecode /\ [][NextDecode]_vars

\* the addresses of a frame that end with 'pump', by offset
PumpOffsets(frame) ==
  {o \in {0, 8, 9, 244} : o <= frame.len - 32
                            /\ EndsWithPump(WindowAt(frame, o))}

\* the stated result: in the first frame that holds an address ending with
\* 'pump', the address at offset 8 if it is one, else the one at the lowest
\* offset; no mint when no frame holds one
StatedDecode(frames) ==
  LET hits == {n \in 1..Len(frames) : PumpOffsets(frames[n]) # {}}
  IN  IF hits = {} THEN NoDecode
      ELSE LET n == CHOOSE x \in hits : \A y \in hits : x <= y
               offs == PumpOffsets(frames[n])
               o == IF 8 \in offs THEN 8
                    ELSE CHOOSE x \in offs : \A y \in offs : x <= y
           IN  PumpMint(WindowAt(frames[n], o))

\* C26: the bonding-curve decoder returns, with confidence 0.94, the address
\* at offset 8 of the first frame if it ends with 'pump' in any case, else
\* the address of the lowest window that does, and no mint when there is
\* none; this for the decoder of decoder.js and for the one of the resolver.
DecodesBySuffix ==
  fp.pc = "returned" =>
     /\ fp.byDecoder = StatedDecode(fp.frames)
     /\ fp.byResolver = StatedDecode(fp.frames)

\* the same for PumpfunDecoder.decodePumpFunCreate alone
PumpfunDecoderDecodesBySuffix ==
  fp.pc = "returned" => fp.byDecoder = StatedDecode(fp.frames)

\* ---------------------------------------------------------------------
\* Mint extraction from token balances: extractRaydiumMintAddress
\* (decoder.js:354-366, part_005:12-25) and extractMintAddress
\* (pumpfunDecoder.js:9-28).  A balance entry is {accountIndex, mint,
\* uiTokenAmount.uiAmount}; pre is the set of the accountIndex values of
\* meta.preTokenBalances; accounts are the account keys of the transaction.

MaxBalances == 2

NewMint == "7GCihgDB8fe6KNjn2MYtkzZcRjQy3t9GHdC8uHYmW2hr"

BalanceInputs ==
  [accountIndex : {1, 2}, mint : {NewMint, WSOL}, uiAmount : {0, 5}]

BalanceSeqInputs == UNION {[1..n -> BalanceInputs] : n \in 0..MaxBalances}

AccountKeys == <<"FeePayer1111", "TokenAccount1", "TokenAccount2">>

\* extractRaydiumMintAddress({ meta }), from the k-th entry on
RECURSIVE extractRaydiumMintAddress(_, _)
extractRaydiumMintAddress(post, k) ==
  IF k > Len(post) THEN Null
  ELSE IF post[k].uiAmount > 0 THEN post[k].mint
  ELSE extractRaydiumMintAddress(post, k + 1)

\* extractMintAddress({ accounts, meta }, logs) on logs without a 'mint:'
\* line: the account key at the index of the first new balance entry
extractMintAddress(post, pre) ==
  LET newAccounts == SelectSeq(post, LAMBDA b : b.accountIndex \notin pre)
  IN  IF Len(newAccounts) > 0
      THEN AccountKeys[newAccounts[1].accountIndex + 1]
      ELSE Null

InitExtract ==
  /\ PipeIdle /\ SwapIdle /\ ValIdle
  /\ \E post \in BalanceSeqInputs, pre \in SUBSET {1, 2} :
        fp = [pc |-> "call", post |-> post, pre |-> pre,
              byRaydium |-> Null, byPumpfun |-> Null]

CallExtractMintAddress ==
  /\ fp.pc = "call"
  /\ fp' = [fp EXCEPT !.pc = "returned",
              !.byRaydium = extractRaydiumMintAddress(fp.post, 1),
              !.byPumpfun = extractMintAddress(fp.post, fp.pre)]
  /\ UNCHANGED <<pipeVars, swap, valVars>>

NextExtract == CallExtractMintAddress

SpecExtract == InitExtract /\ [][NextExtract]_vars

\* the stated result: the mint of the first entry that is new and holds a
\* positive amount
StatedExtract(post, pre) ==
  LET hits == {k \in 1..Len(post) : /\ post[k].accountIndex \notin pre
                                    /\ post[k].uiAmount > 0}
  IN  IF hits = {} THEN Null
      ELSE post[CHOOSE k \in hits : \A j \in hits : k <= j].mint

\* C27: the balance scan returns the mint of the first postTokenBalances
\* entry whose accountIndex is not in preTokenBalances and whose uiAmount is
\* positive, and never the mint of an entry whose accountIndex was there
\* before the transaction.
FirstNewPositiveBalance ==
  fp.pc = "returned" =>
     /\ fp.byRaydium = StatedExtract(fp.post, fp.pre)
     /\ fp.byPumpfun = StatedExtract(fp.post, fp.pre)

\* what does hold of extractRaydiumMintAddress: the mint of the first entry
\* with a positive amount, new or not
FirstPositiveBalance ==
  fp.pc = "returned" => fp.byRaydium = StatedExtract(fp.post, {})

\* ---------------------------------------------------------------------
\* The transaction decoders: decodeMeteora (meteoraDecoder.js:65-122),
\* decodeRaydium (raydiumDecoder.js:43-94) and PumpfunDecoder through
\* BaseDecoder.process (decoder.js:133-252).  txn is what
\* connection.getTransaction does: fetch is how the request settles ("ok",
\* "null" for an unknown signature, or the error thrown); the flags say
\* which fields the transaction has; mint is what the decoder's extraction
\* finds in it; direct is what decodePumpFunCreate finds in the logs.

TxnInputs ==
  {[fetch |-> "ok", transaction |-> t, message |-> mg, staticKeys |-> sk,
    mint |-> mint, direct |-> d] :
      t \in BOOLEAN, mg \in BOOLEAN, sk \in BOOLEAN,
      mint \in {Null, NewMint}, d \in {Null, PumpFrame.at8}}
  \cup
  {[fetch |-> f, transaction |-> FALSE, message |-> FALSE,
    staticKeys |-> FALSE, mint |-> Null, direct |-> d] :
      f \in {"null"} \cup {o.message : o \in FnOutcomes \ {[kind |-> "ok",
                                                          message |-> ""]}},
      d \in {Null, PumpFrame.at8}}

\* the transactions a provider can answer with
TxnCoherent(txn) ==
  /\ txn.message => txn.transaction
  /\ txn.staticKeys => txn.message
  /\ txn.mint # Null => txn.message

Raised(message) == [kind |-> "thrown", message |-> message, mint |-> Null]

Decoded(mint) == [kind |-> "object", message |-> "", mint |-> mint]

\* the try block of decodeMeteora / decodeRaydium up to the extraction
\* (meteoraDecoder.js:66-92, raydiumDecoder.js:44-66): the error it throws,
\* or "" when it gets through
FetchAndCheck(txn, needsKeys) ==
  IF txn.fetch \notin {"ok", "null"} THEN txn.fetch
  ELSE IF txn.fetch = "null" THEN "Transaction not found for signature"
  ELSE IF ~txn.message THEN "Missing transaction.message"
  ELSE IF needsKeys /\ ~txn.staticKeys
       THEN "Missing account keys from transaction"
  ELSE ""

\* decodeMeteora(signature)
decodeMeteora(txn) ==
  LET err == FetchAndCheck(txn, TRUE)
  IN  IF err # "" THEN Raised("Meteora Decode Error: " \o err)
      ELSE Decoded(txn.mint)

\* decodeRaydium(signature)
decodeRaydium(txn) ==
  LET err == FetchAndCheck(txn, FALSE)
  IN  IF err # "" THEN Raised("Raydium Decode Error: " \o err)
      ELSE IF txn.mint = Null
           THEN Raised("Raydium Decode Error: Not a Raydium transaction")
      ELSE Decoded(txn.mint)

\* BaseDecoder.getTransactionInfo(signature) (decoder.js:133-177): the error
\* it rethrows, or "" when it returns the transaction info
getTransactionInfo(txn) ==
  IF txn.fetch \notin {"ok", "null"} THEN txn.fetch
  ELSE IF txn.fetch = "null" THEN "Transaction not found"
  ELSE IF ~txn.message THEN "TypeError: Cannot read properties of undefined"
  ELSE ""

\* PumpfunDecoder.process(taggedLog) (decoder.js:179-209, 219-252): decode
\* with the direct result of the logs, else with extractMintAddress, which
\* reads transaction.message of the info record, where the message is at
\* transaction.transaction.message: a TypeError
PumpfunDecoderProcess(txn) ==
  LET err == getTransactionInfo(txn)
  IN  IF err # "" THEN Raised(err)
      ELSE IF txn.direct # Null THEN Decoded(txn.direct)
      ELSE Raised("TypeError: Cannot read properties of undefined")

Decoders == {"decodeMeteora", "decodeRaydium", "PumpfunDecoder"}

InitDecoders ==
  /\ PipeIdle /\ SwapIdle /\ ValIdle
  /\ \E txn \in TxnInputs, decoder \in Decoders :
        /\ TxnCoherent(txn)
        /\ fp = [pc |-> "call", decoder |-> decoder, txn |-> txn,
                 result |-> Decoded(Null)]

CallDecoder ==
  /\ fp.pc = "call"
  /\ fp' = [fp EXCEPT !.pc = "returned",
              !.result = CASE fp.decoder = "decodeMeteora"
                                -> decodeMeteora(fp.txn)
                           [] fp.decoder = "decodeRaydium"
                                -> decodeRaydium(fp.txn)
                           [] OTHER -> PumpfunDecoderProcess(fp.txn)]
  /\ UNCHANGED <<pipeVars, swap, valVars>>

NextDecoders == CallDecoder

SpecDecoders == InitDecoders /\ [][NextDecoders]_vars

\* the failures of a decode: the request fails, the transaction is unknown
\* or malformed, it has no account keys, or no mint is found in it
DecodeFailure(txn, decoder) ==
  \/ txn.fetch # "ok"
  \/ ~txn.message
  \/ ~txn.staticKeys
  \/ IF decoder = "PumpfunDecoder" THEN txn.direct = Null /\ txn.mint = Null
     ELSE txn.mint = Null

\* C28: on any failure each of the three decoders returns null and raises
\* nothing to its caller.
DecodersReturnNullOnFailure ==
  (fp.pc = "returned" /\ DecodeFailure(fp.txn, fp.decoder))
     => fp.result.kind = "null"

\* a decoder that fails raises, except for a transaction in which no mint
\* is found (decodeMeteora) or account keys are missing (decodeRaydium,
\* PumpfunDecoder with a mint in the logs), which yield a record
DecodersRaiseOnFailure ==
  (fp.pc = "returned" /\ DecodeFailure(fp.txn, fp.decoder))
     => fp.result.kind \in {"thrown", "object"}

\* ---------------------------------------------------------------------
\* Decode failures in the pipeline (tagResolver.js:81-123,
\* HeliusSocketClient.js:200-233)

\* the handler t ran the bonding-curve decoder and it found no mint:
\* resolveTag went on past its decoder branch
DecodeFailed(t) ==
  /\ \E j \in 1..Len(tasks[t].steps) : tasks[t].steps[j] = "decode"
  /\ tasks[t].tagInfo.kind \in {"null", "tag"}

\* C29: a message whose mint decoding failed is dropped: the executor is not
\* invoked for it and the unresolved counter of its source is incremented.
DecodeFailureIsDropped ==
  \A t \in 1..Len(tasks) :
     DecodeFailed(t) => /\ tasks[t].execCalls = 0
                        /\ tasks[t].bumped = "unresolved"

\* the handler t got a mint from the bonding-curve decoder: resolveTag went
\* on to validate it
MintDecoded(t) ==
  \E j \in 1..Len(tasks[t].steps) : tasks[t].steps[j] = "validate"

\* no handler has called the executor with a confidence under the threshold
ExecutedOnlyAboveThreshold ==
  \A t \in 1..Len(tasks) :
     tasks[t].execCalls > 0
        => /\ tasks[t].tagInfo.kind = "tag"
           /\ tasks[t].tagInfo.confidence >= CONFIDENCE_THRESHOLD

\* C30: a decoded mint goes to the executor whatever its validation says,
\* the decoder's confidence 0.94 being at least the threshold; and nothing
\* is executed with a confidence under the threshold.
ValidationIsAdvisory ==
  /\ \A t \in 1..Len(tasks) :
        MintDecoded(t) => /\ tasks[t].execCalls > 0
                          /\ tasks[t].tagInfo.kind = "tag"
                          /\ tasks[t].tagInfo.mint # "unknown"
  /\ ExecutedOnlyAboveThreshold

\* ---------------------------------------------------------------------
\* The per-source counters (HeliusSocketClient.js:162-210)

\* the handlers of a source that got their rate token
Granted(label) ==
  {t \in 1..Len(tasks) : tasks[t].label = label
                           /\ tasks[t].outcome # "rate_limited"}

MaxElapse == 15

ClockStep == SWEEP_INTERVAL \div 2

Elapse ==
  /\ exited = "running"
  /\ now < StartTime + MaxElapse * ClockStep
  /\ now' = now + ClockStep
  /\ processedSigs' =
       IF (now' - StartTime) % SWEEP_INTERVAL = 0
       THEN [s \in DOMAIN processedSigs |-> Sweep(processedSigs[s], now')]
       ELSE processedSigs
  /\ UNCHANGED <<chainSlot, sessions, signalStats, cachedSlot, tasks, exited,
                 faults, swap, valVars, fp>>

NextSweep ==
  \/ Open(1)
  \/ \E k \in 1..Len(Messages) : Deliver(1, k, TRUE)
  \/ Elapse

SpecSweep == Init /\ [][NextSweep]_vars

\* the time of the last sweep that has run
LastSweep == now - ((now - StartTime) % SWEEP_INTERVAL)

DistinctSignaturesSameSlot(t, u) ==
  /\ t < u
  /\ tasks[t].sess = tasks[u].sess
  /\ tasks[t].outcome # "rate_limited"
  /\ tasks[u].outcome # "rate_limited"
  /\ Messages[tasks[t].msg].signature # Null
  /\ Messages[tasks[u].msg].signature # Null
  /\ Messages[tasks[t].msg].signature # Messages[tasks[u].msg].signature
  /\ Messages[tasks[t].msg].slot = Messages[tasks[u].msg].slot

\* C33: the dedup key of a message that carries a signature in
\* params.result.value is that signature, and of two messages of one slot
\* with different signatures the later one is not dropped as a duplicate.
KeyIsValueSignature ==
  /\ \A t \in 1..Len(tasks) :
        Messages[tasks[t].msg].signature # Null
        => tasks[t].sig = Messages[tasks[t].msg].signature
  /\ \A t, u \in 1..Len(tasks) :
        DistinctSignaturesSameSlot(t, u) => tasks[u].outcome # "duplicate"

\* the key the handler does use: that of the envelope when there is one, the
\* slot's otherwise
KeyIsEnvelopeSignatureOrSlot ==
  \A t \in 1..Len(tasks) :
     tasks[t].sig = IF Messages[tasks[t].msg].topSignature # Null
                    THEN Messages[tasks[t].msg].topSignature
                    ELSE "slot-" \o ToString(Messages[tasks[t].msg].slot)

\* two feed messages of slot 150 with different signatures, the later one
\* dropped as a duplicate of the earlier
KeyIsValueSignatureViolated ==
  \E t, u \in 1..Len(tasks) :
     /\ DistinctSignaturesSameSlot(t, u)
     /\ tasks[t].sig = "slot-150"
     /\ tasks[u].outcome = "duplicate"

\* ---------------------------------------------------------------------
\* Dedup across a reconnect (HeliusSocketClient.js:106-119, 240-247)

\* two deliveries of one message, the later one on a replacement connection
\* while the entry of the first is less than DEDUP_TTL old
RedeliveredAfterReconnect(t, u) ==
  /\ t < u
  /\ tasks[t].msg = tasks[u].msg
  /\ tasks[t].sess < tasks[u].sess
  /\ tasks[t].outcome # "rate_limited"
  /\ tasks[u].outcome # "rate_limited"
  /\ tasks[u].repeated

\* C34: a signature recorded before a close is still a duplicate when it is
\* delivered on the replacement connection within 60 s of its first
\* observation: the later handler ends at the dedup check and never calls
\* the executor.
DedupSurvivesReconnect ==
  \A t, u \in 1..Len(tasks) :
     RedeliveredAfterReconnect(t, u)
     => /\ tasks[u].outcome = "duplicate"
        /\ tasks[u].execCalls = 0

\* what the code keeps: the maps of two connections are separate, the
\* replacement starts from an empty one
MapsArePerConnection ==
  [][\A s \in 1..Len(sessions) :
       Reconnect(s) => processedSigs'[Len(processedSigs')] = {}]_vars

\* ---------------------------------------------------------------------
\* The confidence of a resolveTag result (tagResolver.js:81-123, 290-294)

\* resolveTag returned a result through the score-only fallback
ScoreOnlyReturned ==
  /\ fp.pc = "returned"
  /\ fp.result.kind = "tag"
  /\ fp.result.tag = "score_only_fallback"

ConfidenceAtLeastThreshold ==
  (fp.pc = "returned" /\ fp.result.kind = "tag")
  => /\ fp.result.confidence >= CONFIDENCE_THRESHOLD
     /\ ScoreOnlyReturned
          => /\ fp.result.confidence
                  = 100 * calculateSignalScore(fp.logs, Join(fp.logs, " "))
             /\ fp.result.confidence >= 100 * SCORE_THRESHOLD

\* ---------------------------------------------------------------------
\* The mint handed to the executor (HeliusSocketClient.js:200-229)

\* C35: executeSnipe is called only with a tag result whose mint is a
\* concrete address, never with mint = 'unknown'.
ExecutedMintIsConcrete ==
  \A t \in 1..Len(tasks) :
     tasks[t].execCalls > 0
     => /\ tasks[t].tagInfo.kind = "tag"
        /\ tasks[t].tagInfo.mint # "unknown"
        /\ tasks[t].tagInfo.mint # Null

\* what the code keeps: the executor is called with a result of resolveTag
\* that passed the confidence gate, and every such result comes from a
\* fallback and carries 'unknown'
ExecutedMintIsUnknown ==
  \A t \in 1..Len(tasks) :
     tasks[t].execCalls > 0
     => /\ tasks[t].tagInfo.kind = "tag"
        /\ tasks[t].tagInfo.confidence >= CONFIDENCE_THRESHOLD
        /\ tasks[t].tagInfo.mint = "unknown"

\* ---------------------------------------------------------------------
\* The slot cache under concurrent handlers (HeliusSocketClient.js:79-88)

\* getCachedSlot returns to handler t in this step
SlotReturnedTo(t) ==
  /\ tasks[t].pc \in {"throttle", "getSlot"}
  /\ ~SeqIncludes(tasks[t].steps, "stale")
  /\ SeqIncludes(tasks'[t].steps, "stale")

\* C37: with the chain slot non-decreasing, the cached slot value never
\* decreases, and the value getCachedSlot returns to a handler is never
\* older than one it returned to a handler before.
CachedSlotNeverDecreases ==
  [][/\ cachedSlot'.value >= cachedSlot.value
     /\ \A t \in 1..Len(tasks) :
           SlotReturnedTo(t)
           => \A u \in 1..Len(tasks) :
                 SeqIncludes(tasks[u].steps, "stale")
                 => tasks'[t].currentSlot >= tasks[u].currentSlot]_vars

\* what the code keeps: the cache holds a slot the chain has reached
CachedSlotNeverAhead == cachedSlot.value <= chainSlot

\* ---------------------------------------------------------------------
\* The failures counter (HeliusSocketClient.js:143-167, 230-233)

\* the handlers of a source that ended in the catch block
Caught(label) ==
  {t \in 1..Len(tasks) : tasks[t].label = label
                           /\ tasks[t].outcome \in {"failed", "rejected"}}

\* C38: an error raised while a message of source X is processed adds
\* exactly one to the failures counter of X and to no other source's, and
\* the handler itself never raises.
FailuresCountedAtSource ==
  /\ \A l \in DOMAIN signalStats \cup {tasks[t].label : t \in 1..Len(tasks)} :
        IF l \in DOMAIN signalStats
        THEN signalStats[l].failures = Cardinality(Caught(l))
        ELSE Caught(l) = {}
  /\ \A t \in 1..Len(tasks) : tasks[t].outcome # "rejected"
  /\ exited # "crashed"

\* what the code keeps: every counted failure is counted under 'Unknown',
\* whatever the source, and only when that entry exists
FailuresCountedAtUnknown ==
  /\ \A l \in DOMAIN signalStats :
        signalStats[l].failures =
          IF l = "Unknown"
          THEN Cardinality({t \in 1..Len(tasks) : tasks[t].outcome = "failed"})
          ELSE 0
  /\ \A t \in 1..Len(tasks) :
        tasks[t].outcome = "failed" => "Unknown" \in DOMAIN signalStats

\* ---------------------------------------------------------------------
\* One attempt per dedup entry (HeliusSocketClient.js:167-173)

\* the handler that started in this step
Arrived == tasks'[Len(tasks')]

MaxRouterCalls == 3

\* initializeDecoders (decoder.js:413-418)
RouterTags == {"pumpfun_create", "raydium_initPool", "meteora_initPool"}

\* the tags processTaggedLog is called with: one has no decoder
TagInputs == RouterTags \cup {"spl_mint_init"}

\* how decoder.process(taggedLog) settles: getTransactionInfo throws, the
\* decode throws after it, or the record has a mint address or none
ProcessOutcomes == {"rpc_error", "decode_error", "mint", "no_mint"}

\* taggedLog.callback: absent, returning, or throwing on a decoded record
CallbackInputs == {"none", "ok", "throws"}

\* BaseDecoder.setupMetrics (decoder.js:118-127)
NewDecoderMetrics ==
  [processed |-> 0, errors |-> 0, mintAddressesFound |-> 0, rpcRequests |-> 0,
   rpcErrors |-> 0]

\* the constructor of DecoderRouter (decoder.js:400-411)
NewRouterMetrics ==
  [totalProcessed |-> 0, successfulDecodes |-> 0, errors |-> 0,
   mintAddressesExtracted |-> 0, rpcRequests |-> 0, rpcErrors |-> 0]

\* BaseDecoder.process with its one getTransactionInfo call
\* (decoder.js:133-209) on the decoder's counters
DecoderProcess(m, o) ==
  [m EXCEPT !.processed = @ + 1,
            !.rpcRequests = @ + 1,
            !.rpcErrors = IF o = "rpc_error" THEN @ + 1 ELSE @,
            !.errors = IF o \in {"rpc_error", "decode_error"} THEN @ + 1 ELSE @,
            !.mintAddressesFound = IF o = "mint" THEN @ + 1 ELSE @]

\* this.metrics.rpcRequests += decoderMetrics.rpcRequests, and rpcErrors
\* (decoder.js:440-442)
Aggregate(r, before, after) ==
  [r EXCEPT !.rpcRequests = @ + after.rpcRequests,
            !.rpcErrors = @ + after.rpcErrors]

\* processTaggedLog(tag, taggedLog) (decoder.js:432-467)
processTaggedLog(tag, o, callback) ==
  /\ fp.calls < MaxRouterCalls
  /\ IF tag \notin RouterTags
     THEN fp' = [fp EXCEPT !.calls = @ + 1, !.pc = "returned"]
     ELSE LET after == DecoderProcess(fp.decoders[tag], o)
              counted == [fp.router EXCEPT !.totalProcessed = @ + 1]
              thrown == o \in {"rpc_error", "decode_error"}
              summed == Aggregate(counted, fp.decoders[tag], after)
          IN  fp' = [fp EXCEPT
                !.calls = @ + 1,
                !.pc = "returned",
                !.decoders[tag] = after,
                !.router =
                  IF thrown THEN [counted EXCEPT !.errors = @ + 1]
                  ELSE IF callback = "throws"
                  THEN [summed EXCEPT !.errors = @ + 1]
                  ELSE [summed EXCEPT
                          !.successfulDecodes = @ + 1,
                          !.mintAddressesExtracted =
                             IF o = "mint" THEN @ + 1 ELSE @]]
  /\ UNCHANGED <<pipeVars, swap, valVars>>

InitRouter ==
  /\ PipeIdle /\ SwapIdle /\ ValIdle
  /\ fp = [pc |-> "idle", calls |-> 0, router |-> NewRouterMetrics,
           decoders |-> [t \in RouterTags |-> NewDecoderMetrics]]

NextRouter ==
  \E tag \in TagInputs, o \in ProcessOutcomes, callback \in CallbackInputs :
     processTaggedLog(tag, o, callback)

SpecRouter == InitRouter /\ [][NextRouter]_vars

\* the sum of a counter over the decoders
DecoderSum(field) ==
  fp.decoders["pumpfun_create"][field] + fp.decoders["raydium_initPool"][field]
    + fp.decoders["meteora_initPool"][field]

\* the part of C40 on the router's own counters: decodes and errors are at
\* most the calls, and extracted mints at most the decodes
RouterCountersBounded ==
  /\ fp.router.successfulDecodes + fp.router.errors <= fp.router.totalProcessed
  /\ fp.router.mintAddressesExtracted <= fp.router.successfulDecodes

\* C40: after any sequence of processTaggedLog calls the router's
\* rpcRequests and rpcErrors are the sums of the decoders' counters, and
\* successfulDecodes + errors <= totalProcessed with
\* mintAddressesExtracted <= successfulDecodes.
RouterAggregatesAreSums ==
  /\ fp.router.rpcRequests = DecoderSum("rpcRequests")
  /\ fp.router.rpcErrors = DecoderSum("rpcErrors")
  /\ fp.router.successfulDecodes + fp.router.errors <= fp.router.totalProcessed
  /\ fp.router.mintAddressesExtracted <= fp.router.successfulDecodes
====
